---- MODULE Spec2Model ----
(***************************************************************************)
(* Draft Consistency Engine of capcut-auto-project-creator.                *)
(*                                                                         *)
(* The three JSON documents (draft_meta_info = import catalog,             *)
(* draft_virtual_store = link graph, draft_content = content) are records; *)
(* the stage functions of jsonfiller.py, doctor.py, synchronizer.py,       *)
(* operations.py and capcut_transitions_utils.py are operators from        *)
(* documents to documents; the stage classes of initializer.py are the     *)
(* actions of the pipeline specification Spec.                             *)
(*                                                                         *)
(* uuid4() identifiers are modelled by a counter (nextId): every call      *)
(* returns an identifier never returned before.  A dictionary key that is  *)
(* absent, or holds Python's None, is the value None.                      *)
(***************************************************************************)
EXTENDS Integers, Sequences, FiniteSets, TLC

VARIABLES
    pc,           \* the stage to run next ("api" when functions are called directly)
    images,       \* ctx.images: ordered visual asset paths
    sounds,       \* ctx.sounds: ordered audio asset paths
    config,       \* ctx.config: the YAML values the stages read
    dmi,          \* ctx.baselines["draft_meta_info"]
    dvs,          \* ctx.baselines["draft_virtual_store"]
    dc,           \* ctx.baselines["draft_content"]
    idmaps,       \* ctx.idmaps
    timeline,     \* ctx.timeline
    ops,          \* ctx.ops
    diagnostics,  \* ctx.diagnostics: the doctor's report
    written,      \* the documents write_json saved
    nextId,       \* next fresh uuid
    log           \* the API calls made so far, in order (SpecApi, SpecTransitions)

vars == <<pc, images, sounds, config, dmi, dvs, dc, idmaps, timeline, ops,
          diagnostics, written, nextId, log>>

None == -1

----------------------------------------------------------------------------
(* Bounds *)

MaxAssets == 2      \* longest asset list handed to the API directly
MaxCalls == 3       \* API calls per behaviour of SpecApi

----------------------------------------------------------------------------
(* Small helpers *)

Max2(a, b) == IF a >= b THEN a ELSE b

Min2(a, b) == IF a <= b THEN a ELSE b

Range(s) == {s[i] : i \in 1..Len(s)}

SeqsUpTo(S, n) == UNION {[1..k -> S] : k \in 0..n}

\* list.insert(pos, x) with a 0-based pos in 0..len
InsertAt(s, pos, x) ==
    [i \in 1..(Len(s) + 1) |->
        IF i <= pos THEN s[i] ELSE IF i = pos + 1 THEN x ELSE s[i - 1]]

\* [x for x in s if Keep(x)]
RECURSIVE FilterSeq(_, _)
FilterSeq(s, keep) ==
    IF s = <<>> THEN <<>>
    ELSE IF Head(s) \in keep THEN <<Head(s)>> \o FilterSeq(Tail(s), keep)
    ELSE FilterSeq(Tail(s), keep)

----------------------------------------------------------------------------
(* The external collaborators: path resolution and media probing.          *)
(* The working directory is /w; a relative name resolves below it.         *)

Abs(p) == IF p = "p1.png" THEN "/w/p1.png" ELSE p

IsVideo(path) == path \in {"/w/v2.mp4"}

\* duration_us the video probe reports: a clip shorter than 200 ms
ProbeVideoDur(path) == 150000

\* the audio probe: duration_us, or None when probing fails
GetAudioDurationUs(path) == IF path = "/w/s1.mp3" THEN 7000000 ELSE None

----------------------------------------------------------------------------
(* JSON scaffolding helpers (jsonfiller.py)                                *)

HasBucket(buckets, type_id) == \E i \in 1..Len(buckets) : buckets[i].type = type_id

\* index of the first bucket of the type (next(... for b in buckets if ...))
BucketIndex(buckets, type_id) ==
    CHOOSE i \in 1..Len(buckets) :
        /\ buckets[i].type = type_id
        /\ \A j \in 1..(i - 1) : buckets[j].type # type_id

\* _find_or_create_meta_bucket / _find_or_create_vstore_bucket: the bucket
\* list with a bucket of the type present (appended empty when missing)
FindOrCreateBucket(buckets, type_id) ==
    IF HasBucket(buckets, type_id) THEN buckets
    ELSE Append(buckets, [type |-> type_id, value |-> <<>>])

\* the records of the first bucket of the type (<<>> when there is none)
BucketValue(buckets, type_id) ==
    IF HasBucket(buckets, type_id) THEN buckets[BucketIndex(buckets, type_id)].value
    ELSE <<>>

\* items appended to the list that find-or-create returned
AppendToBucket(buckets, type_id, items) ==
    LET bs == FindOrCreateBucket(buckets, type_id)
        k == BucketIndex(bs, type_id)
    IN [bs EXCEPT ![k].value = @ \o items]

ContentBuckets == {"videos", "audios", "transitions", "speeds",
                   "placeholder_infos", "sound_channel_mappings"}

\* mats.setdefault(key, []) for every key of keys
SetDefaultBuckets(mats, keys) ==
    [k \in (DOMAIN mats) \cup keys |-> IF k \in DOMAIN mats THEN mats[k] ELSE <<>>]

\* _ensure_content_scaffolding
EnsureContentScaffolding(c) ==
    [c EXCEPT !.materials = SetDefaultBuckets(@, ContentBuckets)]

TrackIndex(tracks, kind) ==
    IF \E i \in 1..Len(tracks) : tracks[i].type = kind
    THEN CHOOSE i \in 1..Len(tracks) :
            /\ tracks[i].type = kind
            /\ \A j \in 1..(i - 1) : tracks[j].type # kind
    ELSE 0

----------------------------------------------------------------------------
(* add_imports (jsonfiller.py)                                             *)

ImportPayload(path, id) ==
    [id |-> id, path |-> path,
     duration |-> IF IsVideo(path) THEN ProbeVideoDur(path) ELSE None]

AudioPayload(apath, id) ==
    [id |-> id, path |-> apath,
     duration |-> IF GetAudioDurationUs(apath) = None THEN 0
                  ELSE GetAudioDurationUs(apath)]

\* the identifier minted for images[i]; the audio gets id0 + Len(imgs)
ImportIdOf(id0, i) == id0 + i - 1

AddImports(meta, vstore, imgs, snds, id0) ==
    LET n == Len(imgs)
        imgItems == [i \in 1..n |-> ImportPayload(Abs(imgs[i]), ImportIdOf(id0, i))]
        imgEdges == [i \in 1..n |-> [child_id |-> ImportIdOf(id0, i)]]
        imgMaps == [i \in 1..n |-> [path |-> Abs(imgs[i]), import_id |-> ImportIdOf(id0, i)]]
        hasAudio == snds # <<>>
        apath == Abs(snds[1])
        audId == id0 + n
        audItems == IF hasAudio THEN <<AudioPayload(apath, audId)>> ELSE <<>>
        audEdges == IF hasAudio THEN <<[child_id |-> audId]>> ELSE <<>>
        audMaps == IF hasAudio THEN <<[path |-> apath, import_id |-> audId]>> ELSE <<>>
    IN [dmi |-> [meta EXCEPT !.draft_materials =
                    AppendToBucket(@, 0, imgItems \o audItems)],
        dvs |-> [vstore EXCEPT !.draft_virtual_store =
                    AppendToBucket(@, 1, imgEdges \o audEdges)],
        idmaps |-> [images |-> imgMaps, audios |-> audMaps],
        next |-> id0 + n + (IF hasAudio THEN 1 ELSE 0)]

----------------------------------------------------------------------------
(* build_timeline (jsonfiller.py)                                          *)

\* imp_map.get(path): the dict is filled from idmaps["images"] and then
\* idmaps["audios"], a later record of the same path replacing an earlier
ImpMapGet(maps, path) ==
    LET recs == maps.images \o maps.audios
        hits == {i \in 1..Len(recs) : recs[i].path = path}
    IN IF hits = {} THEN None
       ELSE recs[CHOOSE i \in hits : \A j \in hits : j <= i].import_id

\* dur_us of one visual asset: probed for a video, configured for an image
ClipDur(path, default_ms) ==
    IF IsVideo(path) THEN ProbeVideoDur(path) ELSE default_ms * 1000

\* t_cursor when asset i is reached: starts at 0, advances by each dur_us
RECURSIVE CursorAt(_, _, _)
CursorAt(imgs, default_ms, i) ==
    IF i <= 1 THEN 0
    ELSE CursorAt(imgs, default_ms, i - 1) + ClipDur(Abs(imgs[i - 1]), default_ms)

\* a speed record stored without the identifier the segment will name
SpeedMatWithoutId(id) == [id |-> None, type |-> "speed"]

\* _create_accessory_materials: the three accessory records of slot i
SpeedMat(id) == [id |-> id, type |-> "speed"]

PlaceholderMat(id) == [id |-> id, type |-> "placeholder_info"]

SoundMappingMat(id) == [id |-> id, type |-> ""]

BuildTimeline(content, imgs, snds, default_ms, maps, id0) ==
    LET c0 == EnsureContentScaffolding(content)
        n == Len(imgs)
        \* identifiers, all fresh and pairwise distinct
        vtrackId == id0
        speedId(i) == id0 + 1 + 3 * (i - 1)
        placeholderId(i) == id0 + 2 + 3 * (i - 1)
        soundId(i) == id0 + 3 + 3 * (i - 1)
        m0 == id0 + 1 + 3 * n
        matId(i) == m0 + 2 * (i - 1)
        segId(i) == m0 + 2 * (i - 1) + 1
        a0 == m0 + 2 * n
        \* the video track: found, or appended empty
        tracks1 == IF TrackIndex(c0.tracks, "video") = 0
                   THEN Append(c0.tracks,
                               [id |-> vtrackId, type |-> "video", segments |-> <<>>])
                   ELSE c0.tracks
        vi == TrackIndex(tracks1, "video")
        path(i) == Abs(imgs[i])
        dur(i) == ClipDur(path(i), default_ms)
        start(i) == CursorAt(imgs, default_ms, i)
        newVideos == [i \in 1..n |->
            [id |-> matId(i), local_material_id |-> ImpMapGet(maps, path(i)),
             type |-> IF IsVideo(path(i)) THEN "video" ELSE "photo",
             path |-> path(i), duration |-> dur(i)]]
        newSegs == [i \in 1..n |->
            [id |-> segId(i), material_id |-> matId(i),
             target_timerange |-> [start |-> start(i), duration |-> dur(i)],
             source_timerange |-> [start |-> 0, duration |-> dur(i)],
             extra_material_refs |-> <<speedId(i), placeholderId(i), soundId(i)>>]]
        clips == [i \in 1..n |->
            [material_id |-> matId(i), path |-> path(i),
             start_us |-> start(i), dur_us |-> dur(i)]]
        video_duration == CursorAt(imgs, default_ms, n + 1)
        tracks2 == [tracks1 EXCEPT ![vi].segments = @ \o newSegs]
        \* the audio part: only sounds[0]
        hasAudio == snds # <<>>
        apath == Abs(snds[1])
        probed == GetAudioDurationUs(apath)
        adur == IF probed = None \/ probed = 0 THEN video_duration ELSE probed
        audio_duration == IF hasAudio THEN adur ELSE 0
        amId == a0
        newAudios == IF hasAudio
                     THEN <<[id |-> amId, local_material_id |-> ImpMapGet(maps, apath),
                             type |-> "extract_music", path |-> apath,
                             duration |-> adur]>>
                     ELSE <<>>
        tracks3 == IF hasAudio /\ TrackIndex(tracks2, "audio") = 0
                   THEN Append(tracks2,
                               [id |-> a0 + 1, type |-> "audio", segments |-> <<>>])
                   ELSE tracks2
        ai == TrackIndex(tracks3, "audio")
        audioSeg == [id |-> a0 + 5, material_id |-> amId,
                     target_timerange |-> [start |-> 0, duration |-> adur],
                     source_timerange |-> [start |-> 0, duration |-> adur],
                     extra_material_refs |-> <<a0 + 2, a0 + 3, a0 + 4>>]
        tracks4 == IF hasAudio
                   THEN [tracks3 EXCEPT ![ai].segments = Append(@, audioSeg)]
                   ELSE tracks3
        mats == [c0.materials EXCEPT
                    !["videos"] = @ \o newVideos,
                    !["audios"] = @ \o newAudios,
                    !["speeds"] = @ \o [i \in 1..n |-> SpeedMat(speedId(i))]
                                    \o (IF hasAudio THEN <<SpeedMat(a0 + 2)>> ELSE <<>>),
                    !["placeholder_infos"] =
                        @ \o [i \in 1..n |-> PlaceholderMat(placeholderId(i))]
                          \o (IF hasAudio THEN <<PlaceholderMat(a0 + 3)>> ELSE <<>>),
                    !["sound_channel_mappings"] =
                        @ \o [i \in 1..n |-> SoundMappingMat(soundId(i))]
                          \o (IF hasAudio THEN <<SoundMappingMat(a0 + 4)>> ELSE <<>>)]
    IN [dc |-> [c0 EXCEPT !.materials = mats, !.tracks = tracks4,
                          !.duration = Max2(video_duration, audio_duration)],
        cache |-> [clips |-> clips,
                   audio |-> IF hasAudio
                             THEN <<[material_id |-> amId, path |-> apath,
                                     start_us |-> 0, dur_us |-> adur]>>
                             ELSE <<>>,
                   catalog |-> <<>>],
        next |-> a0 + 6]

----------------------------------------------------------------------------
(* doctor.py                                                               *)

\* the identifier of the track the doctor inserts ("VIDEO_TRACK")
VIDEO_TRACK == 0

\* shortest transition the doctor accepts and the inserter produces (us)
MinTransitionUs == 200000

DoctorBuckets == ContentBuckets \cup
    {"beats", "loudnesses", "material_colors", "material_animations", "canvas_colors"}

\* int(x or 0)
IntOr0(x) == IF x = None THEN 0 ELSE x

RECURSIVE Flatten(_)
Flatten(ss) == IF ss = <<>> THEN <<>> ELSE Head(ss) \o Flatten(Tail(ss))

\* mats[key] = [] in place of mats.setdefault(key, [])
EnsureMaterialBucketsReset(c) ==
    [c EXCEPT !.materials = [k \in DoctorBuckets |-> <<>>]]

\* _ensure_material_buckets
EnsureMaterialBuckets(c) ==
    [c EXCEPT !.materials = SetDefaultBuckets(@, DoctorBuckets)]

\* the segments of _first_track(dc, kind); none when there is no such track
FirstTrackSegments(c, kind) ==
    IF TrackIndex(c.tracks, kind) = 0 THEN <<>>
    ELSE c.tracks[TrackIndex(c.tracks, kind)].segments

SegEnd(seg) == seg.target_timerange.start + seg.target_timerange.duration

\* the loop "end = max(end, start + duration)" over segs, from 0
RECURSIVE MaxEnd(_)
MaxEnd(segs) ==
    IF segs = <<>> THEN 0
    ELSE Max2(MaxEnd(SubSeq(segs, 1, Len(segs) - 1)), SegEnd(segs[Len(segs)]))

\* _video_span / _audio_span: the first track of the kind only
TrackSpan(c, kind) == MaxEnd(FirstTrackSegments(c, kind))

\* _material_index: every material with a truthy id, over all buckets
\* (material ids are unique across the buckets of the documents modelled)
AllMaterials(c) ==
    UNION {Range(c.materials[k]) : k \in DOMAIN c.materials}

MaterialIds(c) == {m.id : m \in {x \in AllMaterials(c) : x.id # None}}

MaterialById(c, id) == CHOOSE m \in AllMaterials(c) : m.id = id

\* _import_ids: ids of the records of every type-0 bucket of the catalog
ImportIds(meta) ==
    UNION {{r.id : r \in {x \in Range(meta.draft_materials[i].value) : x.id # None}} :
           i \in {j \in 1..Len(meta.draft_materials) : meta.draft_materials[j].type = 0}}

Issue(kind, a, b) == [kind |-> kind, a |-> a, b |-> b]

\* step 2: one issue per segment whose material_id is not in the index
SegmentIssues(c, segs, kind) ==
    LET cand == [i \in 1..Len(segs) |-> Issue(kind, i - 1, segs[i].material_id)]
    IN SelectSeq(cand, LAMBDA x : x.b = None \/ x.b \notin MaterialIds(c))

\* step 3: one issue per material whose local_material_id is missing or unknown
MaterialIssues(mats, import_ids, kindMissing, kindUnknown) ==
    LET cand == [i \in 1..Len(mats) |->
                    IF mats[i].local_material_id = None
                    THEN Issue(kindMissing, mats[i].id, None)
                    ELSE Issue(kindUnknown, mats[i].id, mats[i].local_material_id)]
    IN SelectSeq(cand, LAMBDA x : x.b = None \/ x.b \notin import_ids)

\* step 5: per cut i -> i+1 and per ref of segs[i] that is a transition
\* material with an unsafe duration, one issue
TransitionIssues(c, segs) ==
    LET perRef(i, ref) ==
            IF ref \in MaterialIds(c) /\ MaterialById(c, ref).type = "transition"
            THEN LET tdur == IntOr0(MaterialById(c, ref).duration)
                     prev_d == IntOr0(segs[i].target_timerange.duration)
                     next_d == IntOr0(segs[i + 1].target_timerange.duration)
                 IN IF tdur < MinTransitionUs
                       \/ (prev_d # 0 /\ next_d # 0 /\ tdur > Min2(prev_d, next_d))
                    THEN <<Issue("transition_not_safe", ref, i - 1)>>
                    ELSE <<>>
            ELSE <<>>
        perSeg(i) == Flatten([r \in 1..Len(segs[i].extra_material_refs) |->
                                perRef(i, segs[i].extra_material_refs[r])])
    IN Flatten([i \in 1..(Len(segs) - 1) |-> perSeg(i)])

\* mirroring the duration read before the duration fix
MirroredDurationStale(before, after) == IntOr0(before.duration)

\* the value step 4 mirrors into tm_duration: the content duration as it
\* stands after the duration fix (before is the content ahead of that fix)
MirroredDuration(before, after) == IntOr0(after.duration)

\* inspect_and_fix: the report
InspectAndFix(content, meta, vstore, autofix) ==
    LET c0 == EnsureMaterialBuckets(content)
        noVideo == TrackIndex(c0.tracks, "video") = 0
        c1 == IF noVideo /\ autofix
              THEN [c0 EXCEPT !.tracks =
                        Append(@, [id |-> VIDEO_TRACK, type |-> "video", segments |-> <<>>])]
              ELSE c0
        vsegs == FirstTrackSegments(c1, "video")
        asegs == FirstTrackSegments(c1, "audio")
        issues1 == IF noVideo THEN <<Issue("missing_video_track", None, None)>> ELSE <<>>
        fixes1 == IF noVideo /\ autofix THEN <<"inserted_empty_video_track">> ELSE <<>>
        issues2 == SegmentIssues(c1, vsegs, "video_segment_missing_material")
                   \o SegmentIssues(c1, asegs, "audio_segment_missing_material")
        issues3 == MaterialIssues(c1.materials["videos"], ImportIds(meta),
                                  "video_material_missing_local_material_id",
                                  "video_material_local_material_id_not_imported")
                   \o MaterialIssues(c1.materials["audios"], ImportIds(meta),
                                     "audio_material_missing_local_material_id",
                                     "audio_material_local_material_id_not_imported")
        video_span == TrackSpan(c1, "video")
        audio_span == TrackSpan(c1, "audio")
        expected_duration == Max2(video_span, audio_span)
        content_duration == IntOr0(c1.duration)
        durWrong == content_duration # expected_duration
        c2 == IF durWrong /\ autofix THEN [c1 EXCEPT !.duration = expected_duration] ELSE c1
        tm == IntOr0(meta.tm_duration)
        tmWrong == tm # IntOr0(c2.duration)
        m2 == IF tmWrong /\ autofix
              THEN [meta EXCEPT !.tm_duration = MirroredDuration(c1, c2)]
              ELSE meta
        issues4 == (IF durWrong
                    THEN <<Issue("content_duration", content_duration, expected_duration)>>
                    ELSE <<>>)
                   \o (IF tmWrong
                       THEN <<Issue("tm_duration", tm, IntOr0(c2.duration))>>
                       ELSE <<>>)
        fixes4 == (IF durWrong /\ autofix THEN <<"set_content_duration">> ELSE <<>>)
                  \o (IF tmWrong /\ autofix THEN <<"mirrored_tm_duration">> ELSE <<>>)
        issues5 == TransitionIssues(c1, vsegs)
        issues6 == (IF meta.draft_name = <<>>
                    THEN <<Issue("draft_name_empty", None, None)>> ELSE <<>>)
                   \o (IF meta.draft_fold_path = <<>>
                       THEN <<Issue("draft_fold_path_empty", None, None)>> ELSE <<>>)
    IN [issues |-> issues1 \o issues2 \o issues3 \o issues4 \o issues5 \o issues6,
        fixes |-> fixes1 \o fixes4,
        patched |-> autofix /\ (noVideo \/ durWrong \/ tmWrong),
        draft_content |-> c2,
        draft_meta_info |-> m2,
        draft_virtual_store |-> vstore]

----------------------------------------------------------------------------
(* synchronizer.py: names and paths are sequences of characters            *)

IsSep(ch) == ch = "/" \/ ch = "\\"

\* re.split(r"[\\/]", path_str): the pieces between separator characters
RECURSIVE SplitSeps(_)
SplitSeps(s) ==
    IF s = <<>> THEN <<(<<>>)>>
    ELSE LET rest == SplitSeps(Tail(s))
         IN IF IsSep(Head(s)) THEN <<(<<>>)>> \o rest
            ELSE <<(<<Head(s)>> \o Head(rest))>> \o Tail(rest)

\* sep.join(parts)
RECURSIVE Join(_, _)
Join(parts, sep) ==
    IF parts = <<>> THEN <<>>
    ELSE IF Len(parts) = 1 THEN parts[1]
    ELSE parts[1] \o <<sep>> \o Join(Tail(parts), sep)

Count(s, ch) == Cardinality({i \in 1..Len(s) : s[i] = ch})

NonEmptyParts(parts) == SelectSeq(parts, LAMBDA x : x # <<>>)

\* _replace_last_component
ReplaceLastComponent(path_str, new_name) ==
    IF path_str = <<>> THEN new_name
    ELSE LET split == SplitSeps(path_str)
             parts == [split EXCEPT ![Len(split)] = new_name]
             sep == IF Count(path_str, "\\") > 0
                       /\ Count(path_str, "\\") >= Count(path_str, "/")
                    THEN "\\" ELSE "/"
         IN IF IsSep(path_str[1])
            THEN <<sep>> \o Join(NonEmptyParts(parts), sep)
            ELSE Join(parts, sep)

\* sync_all: the catalog it returns (content and link graph are returned as given)
SyncAll(meta, project_name, project_dir, force_meta_name) ==
    LET m1 == IF force_meta_name \/ meta.draft_name = <<>>
              THEN [meta EXCEPT !.draft_name = project_name]
              ELSE meta
        old_path == m1.draft_fold_path
    IN IF old_path # <<>>
       THEN [m1 EXCEPT !.draft_fold_path = ReplaceLastComponent(old_path, project_name)]
       ELSE IF project_dir # <<>>
            THEN [m1 EXCEPT !.draft_fold_path = project_dir]
            ELSE [m1 EXCEPT !.draft_fold_path = project_name]

----------------------------------------------------------------------------
(* operations.py                                                           *)

\* compute_operations: the parts of the summary derived from the documents
ComputeOperations(content, meta, tl) ==
    LET vi == TrackIndex(content.tracks, "video")
        ai == TrackIndex(content.tracks, "audio")
        clips == IF vi # 0
                 THEN [i \in 1..Len(content.tracks[vi].segments) |->
                        [start_us |-> content.tracks[vi].segments[i].target_timerange.start,
                         dur_us |-> content.tracks[vi].segments[i].target_timerange.duration]]
                 ELSE [i \in 1..Len(tl.clips) |->
                        [start_us |-> tl.clips[i].start_us, dur_us |-> tl.clips[i].dur_us]]
        audio == IF ai # 0
                 THEN [i \in 1..Len(content.tracks[ai].segments) |->
                        [start_us |-> content.tracks[ai].segments[i].target_timerange.start,
                         dur_us |-> content.tracks[ai].segments[i].target_timerange.duration]]
                 ELSE <<>>
        ends(cs) == {cs[i].start_us + cs[i].dur_us : i \in 1..Len(cs)}
        maxOf(S) == IF S = {} THEN 0 ELSE CHOOSE x \in S : \A y \in S : y <= x
        computed_total == maxOf(ends(clips))
        total_us == Max2(IntOr0(content.duration), computed_total)
    IN [clips |-> Len(clips),
        transitions |-> IF "transitions" \in DOMAIN content.materials
                        THEN Len(content.materials["transitions"]) ELSE 0,
        duration_us |-> total_us,
        audio_duration_us |-> maxOf(ends(audio)),
        name |-> meta.draft_name]

----------------------------------------------------------------------------
(* apply_transitions (jsonfiller.py)                                       *)
(* Probabilities are in thousandths: random.random() draws r in 0..999,    *)
(* per_cut_probability 1.0 is 1000.                                        *)

\* the floor of an inserted transition's duration (us)
InserterMinUs == 200000

\* p = max(0.0, min(1.0, float(per_cut_probability)))
ClampProbability(p) == Max2(0, Min2(1000, p))

\* dmin, dmax = the range, swapped when dmin > dmax
DMin(rng) == Min2(rng[1], rng[2])

DMax(rng) == Max2(rng[1], rng[2])

\* the allow-list ignored
FilterCatalogAll(catalog, names) == catalog

\* the allow-list: the catalog restricted to names, unless that empties it
FilterCatalog(catalog, names) ==
    LET filtered == SelectSeq(catalog, LAMBDA c : c.name \in names)
    IN IF names # {} /\ filtered # <<>> THEN filtered ELSE catalog

\* x or y
OrElse(x, y) == IF x = 0 THEN y ELSE x

\* dur_us = max(200_000, min(want_us, prev_us or want_us, next_us or want_us))
TransitionDurUs(want_us, prev_us, next_us) ==
    Max2(InserterMinUs,
         Min2(want_us, Min2(OrElse(prev_us, want_us), OrElse(next_us, want_us))))

\* inserting at the end of the list whatever its length
InsertPosAtEnd(refs) == Len(refs)

\* insert_pos = 2 if len(refs) >= 2 else len(refs)
InsertPos(refs) == IF Len(refs) >= 2 THEN 2 ELSE Len(refs)

\* if tid not in refs: refs.insert(insert_pos, tid)
SpliceRef(refs, tid) ==
    IF tid \in Range(refs) THEN refs ELSE InsertAt(refs, InsertPos(refs), tid)

\* whether the function returns before the loop
TransitionsSkipped(content, tl) ==
    \/ TrackIndex(content.tracks, "video") = 0
    \/ Len(content.tracks[TrackIndex(content.tracks, "video")].segments) < 2
    \/ tl.catalog = <<>>

\* cut i (1-based, between segs[i] and segs[i+1]) gets a transition unless
\* random.random() > p
CutTaken(r, p) == ~(r > ClampProbability(p))

\* ch[i] = [r, pick, want_ms]: the three random draws made at cut i
ApplyTransitions(content, tl, names, p, rng, ch, id0) ==
    LET c0 == EnsureContentScaffolding(content)
    IN IF TransitionsSkipped(c0, tl)
       THEN [dc |-> c0, timeline |-> tl, next |-> id0]
       ELSE
        LET vi == TrackIndex(c0.tracks, "video")
            segs == c0.tracks[vi].segments
            catalog == FilterCatalog(tl.catalog, names)
            ncuts == Len(segs) - 1
            taken(i) == CutTaken(ch[i].r, p)
            tid(i) == id0 + i - 1
            dur(i) == TransitionDurUs(ch[i].want_ms * 1000,
                                      IntOr0(segs[i].target_timerange.duration),
                                      IntOr0(segs[i + 1].target_timerange.duration))
            trans(i) == [id |-> tid(i), type |-> "transition",
                         name |-> catalog[ch[i].pick].name, duration |-> dur(i)]
            added == Flatten([i \in 1..ncuts |-> IF taken(i) THEN <<trans(i)>> ELSE <<>>])
            segs2 == [i \in 1..Len(segs) |->
                        IF i <= ncuts /\ taken(i)
                        THEN [segs[i] EXCEPT !.extra_material_refs = SpliceRef(@, tid(i))]
                        ELSE segs[i]]
        IN [dc |-> [c0 EXCEPT !.materials["transitions"] = @ \o added,
                              !.tracks[vi].segments = segs2],
            timeline |-> tl,
            next |-> id0 + ncuts]

\* the values the random source can return at the cuts of one run
Draws == {0, 500}

CutChoices(content, tl, names, rng) ==
    IF TransitionsSkipped(EnsureContentScaffolding(content), tl) THEN {<<>>}
    ELSE LET ncuts == Len(content.tracks[TrackIndex(content.tracks, "video")].segments) - 1
         IN [1..ncuts ->
                [r : Draws,
                 pick : 1..Len(FilterCatalog(tl.catalog, names)),
                 want_ms : {DMin(rng), DMax(rng)}]]

----------------------------------------------------------------------------
(* The documents a run can start from (the template directory's files)     *)

NoMaps == [images |-> <<>>, audios |-> <<>>]

NoTimeline == [clips |-> <<>>, audio |-> <<>>, catalog |-> <<>>]

NoReport == [issues |-> <<>>, fixes |-> <<>>, patched |-> FALSE,
             draft_content |-> None, draft_meta_info |-> None,
             draft_virtual_store |-> None]

\* a template file that does not exist loads as {}
EmptyTemplate ==
    [dmi |-> [draft_materials |-> <<>>, tm_duration |-> None,
              draft_name |-> <<>>, draft_fold_path |-> <<>>],
     dvs |-> [draft_virtual_store |-> <<>>],
     dc |-> [duration |-> None, materials |-> <<>>, tracks |-> <<>>]]

\* what clean_templatesStage._clean_template_files writes
CleanTemplate ==
    [dmi |-> [draft_materials |-> <<[type |-> 0, value |-> <<>>], [type |-> 1, value |-> <<>>],
                                    [type |-> 2, value |-> <<>>], [type |-> 3, value |-> <<>>],
                                    [type |-> 6, value |-> <<>>], [type |-> 7, value |-> <<>>],
                                    [type |-> 8, value |-> <<>>]>>,
              tm_duration |-> 0,
              draft_name |-> <<"t", "p">>,
              draft_fold_path |-> <<".", "/", "t", "p">>],
     dvs |-> [draft_virtual_store |->
                <<[type |-> 0, value |-> <<[id |-> None, display_name |-> ""]>>],
                  [type |-> 1, value |-> <<>>],
                  [type |-> 2, value |-> <<>>]>>],
     dc |-> [duration |-> 0,
             materials |-> [k \in ContentBuckets |-> <<>>],
             tracks |-> <<>>]]

\* a draft saved with one photo whose file still exists: the template is
\* not cleaned and its three documents agree with each other
UsedTemplate ==
    [dmi |-> [draft_materials |->
                <<[type |-> 0,
                   value |-> <<[id |-> 1, path |-> "/w/old.png", duration |-> None]>>]>>,
              tm_duration |-> 3000000,
              draft_name |-> <<"o">>,
              draft_fold_path |-> <<"C", ":", "\\", "d", "\\", "o">>],
     dvs |-> [draft_virtual_store |->
                <<[type |-> 0, value |-> <<[id |-> None, display_name |-> ""]>>],
                  [type |-> 1, value |-> <<[child_id |-> 1, parent_id |-> ""]>>],
                  [type |-> 2, value |-> <<>>]>>],
     dc |-> [duration |-> 3000000,
             materials |->
                [k \in ContentBuckets |->
                    IF k = "videos"
                    THEN <<[id |-> 2, local_material_id |-> 1, type |-> "photo",
                            path |-> "/w/old.png", duration |-> 3000000]>>
                    ELSE IF k = "speeds" THEN <<SpeedMat(3)>>
                    ELSE IF k = "placeholder_infos" THEN <<PlaceholderMat(4)>>
                    ELSE IF k = "sound_channel_mappings" THEN <<SoundMappingMat(5)>>
                    ELSE <<>>],
             tracks |-> <<[id |-> 6, type |-> "video",
                           segments |-> <<[id |-> 7, material_id |-> 2,
                                           target_timerange |-> [start |-> 0, duration |-> 3000000],
                                           source_timerange |-> [start |-> 0, duration |-> 3000000],
                                           extra_material_refs |-> <<3, 4, 5>>]>>]>>]]

\* a draft edited outside the pipeline: an audio lane only, a segment whose
\* material is gone, stale durations
DriftedTemplate ==
    [dmi |-> [draft_materials |-> <<[type |-> 0, value |-> <<>>]>>,
              tm_duration |-> 1000000,
              draft_name |-> <<"o">>,
              draft_fold_path |-> <<>>],
     dvs |-> [draft_virtual_store |-> <<[type |-> 1, value |-> <<>>]>>],
     dc |-> [duration |-> 2000000,
             materials |-> [k \in {"videos", "audios"} |-> <<>>],
             tracks |-> <<[id |-> 6, type |-> "audio",
                           segments |-> <<[id |-> 7, material_id |-> 2,
                                           target_timerange |-> [start |-> 0, duration |-> 4000000],
                                           source_timerange |-> [start |-> 0, duration |-> 4000000],
                                           extra_material_refs |-> <<>>]>>]>>]]

\* a draft saved with one photo under two audio lanes, the second lane
\* running longer than the first; its durations agree with its timeline
LayeredTemplate ==
    [dmi |-> [draft_materials |->
                <<[type |-> 0,
                   value |-> <<[id |-> 1, path |-> "/w/old.png", duration |-> None],
                               [id |-> 8, path |-> "/w/old.mp3", duration |-> 6000000]>>]>>,
              tm_duration |-> 6000000,
              draft_name |-> <<"o">>,
              draft_fold_path |-> <<"/", "d", "/", "o">>],
     dvs |-> [draft_virtual_store |->
                <<[type |-> 0, value |-> <<[id |-> None, display_name |-> ""]>>],
                  [type |-> 1, value |-> <<[child_id |-> 1, parent_id |-> ""],
                                           [child_id |-> 8, parent_id |-> ""]>>],
                  [type |-> 2, value |-> <<>>]>>],
     dc |-> [duration |-> 6000000,
             materials |->
                [k \in ContentBuckets |->
                    IF k = "videos"
                    THEN <<[id |-> 2, local_material_id |-> 1, type |-> "photo",
                            path |-> "/w/old.png", duration |-> 3000000]>>
                    ELSE IF k = "audios"
                    THEN <<[id |-> 9, local_material_id |-> 8, type |-> "extract_music",
                            path |-> "/w/old.mp3", duration |-> 6000000]>>
                    ELSE IF k = "speeds" THEN <<SpeedMat(3)>>
                    ELSE IF k = "placeholder_infos" THEN <<PlaceholderMat(4)>>
                    ELSE IF k = "sound_channel_mappings" THEN <<SoundMappingMat(5)>>
                    ELSE <<>>],
             tracks |-> <<[id |-> 6, type |-> "video",
                           segments |-> <<[id |-> 7, material_id |-> 2,
                                           target_timerange |-> [start |-> 0, duration |-> 3000000],
                                           source_timerange |-> [start |-> 0, duration |-> 3000000],
                                           extra_material_refs |-> <<3, 4, 5>>]>>],
                          [id |-> 10, type |-> "audio",
                           segments |-> <<[id |-> 11, material_id |-> 9,
                                           target_timerange |-> [start |-> 0, duration |-> 3000000],
                                           source_timerange |-> [start |-> 0, duration |-> 3000000],
                                           extra_material_refs |-> <<>>]>>],
                          [id |-> 12, type |-> "audio",
                           segments |-> <<[id |-> 13, material_id |-> 9,
                                           target_timerange |-> [start |-> 3000000, duration |-> 3000000],
                                           source_timerange |-> [start |-> 3000000, duration |-> 3000000],
                                           extra_material_refs |-> <<>>]>>]>>]]

Templates == {EmptyTemplate, CleanTemplate, UsedTemplate, DriftedTemplate, LayeredTemplate}

\* the transition definitions a configuration can list
TransCatalog == <<[name |-> "Fade"], [name |-> "Zoom"]>>

\* timeline.default_image_duration_ms
DefaultMsChoices == {5000, 100}

\* the project name and directory the run was given
ProjectName == <<"T", "1">>

ProjectDir == <<"/", "o", "/", "T", "1">>

----------------------------------------------------------------------------
(* Spec: the stage list of build_pipeline (initializer.py), from the       *)
(* state scan_assetsStage leaves                                           *)

\* scan_assetsStage: the files of a directory, in natural numeric order
RECURSIVE SubSeqsOf(_)
SubSeqsOf(s) ==
    IF s = <<>> THEN {<<>>}
    ELSE LET rest == SubSeqsOf(Tail(s))
         IN rest \cup {<<Head(s)>> \o r : r \in rest}

ScannedImages == SubSeqsOf(<<"/w/p1.png", "/w/v2.mp4", "/w/p3.png">>)

ScannedSounds == SubSeqsOf(<<"/w/s1.mp3", "/w/s2.mp3">>)

Configs ==
    [default_ms : DefaultMsChoices,
     autofix : BOOLEAN,
     catalog : {<<>>, TransCatalog},
     prob : {0, 1000},
     dur_rng : {<<800, 1200>>}]

Init ==
    /\ pc = "import_media"
    /\ images \in ScannedImages
    /\ sounds \in ScannedSounds
    /\ config \in Configs
    /\ \E t \in Templates : dmi = t.dmi /\ dvs = t.dvs /\ dc = t.dc
    /\ idmaps = NoMaps
    /\ timeline = NoTimeline
    /\ ops = None
    /\ diagnostics = NoReport
    /\ written = None
    /\ nextId = 100
    /\ log = <<>>

\* import_mediaStage.run
import_mediaStage ==
    /\ pc = "import_media"
    /\ LET r == AddImports(dmi, dvs, images, sounds, nextId)
       IN /\ dmi' = r.dmi
          /\ dvs' = r.dvs
          /\ idmaps' = r.idmaps
          /\ nextId' = r.next
    /\ pc' = "build_timeline"
    /\ UNCHANGED <<images, sounds, config, dc, timeline, ops, diagnostics, written, log>>

\* a build_timelineStage that starts again from the cleaned template
\* content instead of ctx.baselines["draft_content"]
build_timelineStageOnTemplate ==
    /\ pc = "build_timeline"
    /\ LET r == BuildTimeline(CleanTemplate.dc, images, sounds, config.default_ms,
                              idmaps, nextId)
       IN /\ dc' = r.dc
          /\ timeline' = r.cache
          /\ nextId' = r.next
    /\ pc' = "apply_transitions"
    /\ UNCHANGED <<images, sounds, config, dmi, dvs, idmaps, ops, diagnostics, written, log>>

\* build_timelineStage.run
build_timelineStage ==
    /\ pc = "build_timeline"
    /\ LET r == BuildTimeline(dc, images, sounds, config.default_ms, idmaps, nextId)
       IN /\ dc' = r.dc
          /\ timeline' = r.cache
          /\ nextId' = r.next
    /\ pc' = "apply_transitions"
    /\ UNCHANGED <<images, sounds, config, dmi, dvs, idmaps, ops, diagnostics, written, log>>

\* apply_transitionsStage.run: the call passes ctx.timeline as `timeline`,
\* the {"catalog", "cache_root"} dict as `names`, prob and the range
apply_transitionsStage ==
    /\ pc = "apply_transitions"
    /\ \E ch \in CutChoices(dc, timeline, {"catalog", "cache_root"}, config.dur_rng) :
        LET r == ApplyTransitions(dc, timeline, {"catalog", "cache_root"},
                                  config.prob, config.dur_rng, ch, nextId)
        IN /\ dc' = r.dc
           /\ timeline' = r.timeline
           /\ nextId' = r.next
    /\ pc' = "operations"
    /\ UNCHANGED <<images, sounds, config, dmi, dvs, idmaps, ops, diagnostics, written, log>>

\* operationsStage.run
operationsStage ==
    /\ pc = "operations"
    /\ ops' = ComputeOperations(dc, dmi, timeline)
    /\ pc' = "synchronizer"
    /\ UNCHANGED <<images, sounds, config, dmi, dvs, dc, idmaps, timeline,
                   diagnostics, written, nextId, log>>

\* synchronizerStage.run
synchronizerStage ==
    /\ pc = "synchronizer"
    /\ dmi' = SyncAll(dmi, ProjectName, ProjectDir, TRUE)
    /\ pc' = "doctor"
    /\ UNCHANGED <<images, sounds, config, dvs, dc, idmaps, timeline, ops,
                   diagnostics, written, nextId, log>>

\* the draft_content object the caller passed, after inspect_and_fix: the
\* function works on dict(draft_content), a shallow copy, so the materials
\* dict and the tracks list are shared with it (both exist once
\* build_timeline has run) while "duration" is set on the copy only
ContentArgAfterInspect(content, autofix) ==
    LET c0 == EnsureMaterialBuckets(content)
    IN IF TrackIndex(c0.tracks, "video") = 0 /\ autofix
       THEN [c0 EXCEPT !.tracks =
                Append(@, [id |-> VIDEO_TRACK, type |-> "video", segments |-> <<>>])]
       ELSE c0

\* doctorStage.run: the report goes to ctx.diagnostics only; ctx.baselines
\* keeps the documents the doctor was given
doctorStage ==
    /\ pc = "doctor"
    /\ diagnostics' = InspectAndFix(dc, dmi, dvs, config.autofix)
    /\ dc' = ContentArgAfterInspect(dc, config.autofix)
    /\ pc' = "write_json"
    /\ UNCHANGED <<images, sounds, config, dmi, dvs, idmaps, timeline, ops,
                   written, nextId, log>>

\* write_jsonStage.run: ctx.baselines, ctx.ops and ctx.diagnostics are saved
write_jsonStage ==
    /\ pc = "write_json"
    /\ written' = [draft_content |-> dc, draft_meta_info |-> dmi,
                   draft_virtual_store |-> dvs, operations |-> ops,
                   doctor_report |-> diagnostics]
    /\ pc' = "done"
    /\ UNCHANGED <<images, sounds, config, dmi, dvs, dc, idmaps, timeline, ops,
                   diagnostics, nextId, log>>

Next ==
    \/ import_mediaStage
    \/ build_timelineStage
    \/ apply_transitionsStage
    \/ operationsStage
    \/ synchronizerStage
    \/ doctorStage
    \/ write_jsonStage

Spec == Init /\ [][Next]_vars

----------------------------------------------------------------------------
(* SpecApi: the public functions called directly, in any order, each call  *)
(* on the documents the previous call returned                             *)

\* a relative path (made absolute on import) and a video
ApiImagePaths == {"p1.png", "/w/v2.mp4"}

ApiSoundLists == {<<>>, <<"/w/s1.mp3">>, <<"/w/s2.mp3", "/w/s1.mp3">>}

InitApi ==
    /\ pc = "api"
    /\ images \in SeqsUpTo(ApiImagePaths, MaxAssets)
    /\ sounds \in ApiSoundLists
    \* the slide length build_timeline is called with
    /\ config \in [default_ms : {5000}]
    /\ \E t \in Templates : dmi = t.dmi /\ dvs = t.dvs /\ dc = t.dc
    /\ idmaps = NoMaps
    /\ timeline = NoTimeline
    /\ ops = None
    /\ diagnostics = NoReport
    /\ written = None
    /\ nextId = 100
    /\ log = <<>>

\* add_imports(dmi, dvs, images, sounds)
ApiAddImports ==
    /\ pc = "api"
    /\ Len(log) < MaxCalls
    /\ LET r == AddImports(dmi, dvs, images, sounds, nextId)
       IN /\ dmi' = r.dmi
          /\ dvs' = r.dvs
          /\ idmaps' = r.idmaps
          /\ nextId' = r.next
    /\ log' = Append(log, "add_imports")
    /\ UNCHANGED <<pc, images, sounds, config, dc, timeline, ops, diagnostics, written>>

\* build_timeline(dc, images, sounds, default_ms, idmaps=idmaps)
ApiBuildTimeline ==
    /\ pc = "api"
    /\ Len(log) < MaxCalls
    /\ LET r == BuildTimeline(dc, images, sounds, config.default_ms, idmaps, nextId)
       IN /\ dc' = r.dc
          /\ timeline' = r.cache
          /\ nextId' = r.next
    /\ log' = Append(log, "build_timeline")
    /\ UNCHANGED <<pc, images, sounds, config, dmi, dvs, idmaps, ops, diagnostics, written>>

\* report = inspect_and_fix(dc, dmi, dvs, autofix=...); the caller goes on
\* with the documents of the report
ApiInspectAndFix ==
    /\ pc = "api"
    /\ Len(log) < MaxCalls
    /\ \E autofix \in BOOLEAN :
        LET r == InspectAndFix(dc, dmi, dvs, autofix)
        IN /\ diagnostics' = r
           /\ dc' = r.draft_content
           /\ dmi' = r.draft_meta_info
           /\ dvs' = r.draft_virtual_store
           /\ log' = Append(log, IF autofix THEN "inspect_and_fix_autofix"
                                 ELSE "inspect_and_fix")
    /\ UNCHANGED <<pc, images, sounds, config, idmaps, timeline, ops, written, nextId>>

NextApi ==
    \/ ApiAddImports
    \/ ApiBuildTimeline
    \/ ApiInspectAndFix

SpecApi == InitApi /\ [][NextApi]_vars

\* the last call made, and the one before it
LastCall == IF log = <<>> THEN "" ELSE log[Len(log)]

PrevCall == IF Len(log) < 2 THEN "" ELSE log[Len(log) - 1]

----------------------------------------------------------------------------
(* capcut_transitions_utils.py: the stand-alone transition tool, working   *)
(* on the first track of a draft_content.json                              *)

\* TRANSITION_TEMPLATES: the preset duration (us) of each type
TRANSITION_TEMPLATES ==
    [n \in {"Pull in", "Fade", "Fast Swipe", "Zoom", "Slide"} |->
        IF n = "Pull in" THEN 466666
        ELSE IF n = "Fade" THEN 500000
        ELSE IF n = "Fast Swipe" THEN 2000000
        ELSE IF n = "Zoom" THEN 800000
        ELSE 600000]

\* _create_transition: an unknown type falls back to "Pull in"
CreateTransition(transition_type, duration_us, id) ==
    LET key == IF transition_type \in DOMAIN TRANSITION_TEMPLATES
               THEN transition_type ELSE "Pull in"
    IN [id |-> id, type |-> "transition", name |-> key,
        duration |-> IF duration_us # None THEN duration_us
                     ELSE TRANSITION_TEMPLATES[key]]

\* _find_transition_insert_position
FindTransitionInsertPosition(extra_refs) ==
    IF Len(extra_refs) >= 2 THEN 2 ELSE Len(extra_refs)

\* the ids of materials["transitions"]
TransitionIds(materials) ==
    IF "transitions" \in DOMAIN materials
    THEN {t.id : t \in Range(materials["transitions"])}
    ELSE {}

\* _looks_like_transition_id: reads materials as they are when it is called
LooksLikeTransitionId(ref_id, materials) == ref_id \in TransitionIds(materials)

\* whether add_transitions_to_content returns False before changing anything
NoSegmentsToJoin(content) ==
    \/ content.tracks = <<>>
    \/ Len(content.tracks[1].segments) < 2

\* add_transitions_to_content: the content it writes back (the file is left
\* as it was when it returns False)
AddTransitionsToContent(content, transition_type, duration_us, skip_first, id0) ==
    IF NoSegmentsToJoin(content)
    THEN [ok |-> FALSE, content |-> content, next |-> id0]
    ELSE
     LET mats0 == SetDefaultBuckets(content.materials, {"transitions"})
         segments == content.tracks[1].segments
         n == Len(segments)
         \* transitions.clear()
         cleared == [mats0 EXCEPT !["transitions"] = <<>>]
         \* the filter runs on the materials as cleared
         kept(k) == FilterSeq(segments[k].extra_material_refs,
                        {ref \in Range(segments[k].extra_material_refs) :
                            ~LooksLikeTransitionId(ref, cleared)})
         start_index == IF skip_first THEN 1 ELSE 0
         \* the id created at loop index i (0-based)
         tid(i) == id0 + (i - start_index)
         \* loop index 0 and loop index 1 both insert into the first segment
         first(k) == IF k = 1 /\ ~skip_first
                     THEN InsertAt(kept(k), FindTransitionInsertPosition(kept(k)), tid(0))
                     ELSE kept(k)
         refs(k) == IF k <= n - 1
                    THEN InsertAt(first(k), FindTransitionInsertPosition(first(k)), tid(k))
                    ELSE first(k)
         created == [j \in 1..(n - start_index) |->
                        CreateTransition(transition_type, duration_us, id0 + j - 1)]
     IN [ok |-> TRUE,
         content |-> [content EXCEPT
                        !.materials = [cleared EXCEPT !["transitions"] = created],
                        !.tracks[1].segments =
                            [k \in 1..n |-> [segments[k] EXCEPT !.extra_material_refs = refs(k)]]],
         next |-> id0 + (n - start_index)]

\* remove_all_transitions: the ids are collected before the list is cleared
RemoveAllTransitions(content) ==
    LET mats0 == SetDefaultBuckets(content.materials, {"transitions"})
        transition_ids == TransitionIds(mats0)
        cleared == [mats0 EXCEPT !["transitions"] = <<>>]
        c1 == [content EXCEPT !.materials = cleared]
    IN IF content.tracks # <<>> /\ content.tracks[1].segments # <<>>
       THEN [c1 EXCEPT !.tracks[1].segments =
                [k \in 1..Len(@) |->
                    [@[k] EXCEPT !.extra_material_refs =
                        FilterSeq(@, Range(@) \ transition_ids)]]]
       ELSE c1

----------------------------------------------------------------------------
(* SpecTransitions: the transition operations called, in any order, on a   *)
(* content document that has a timeline                                    *)

\* calls made in one behaviour of SpecTransitions
MaxRuns == 2

\* a draft whose segments carry short reference lists: one entry, three
\* entries, none; the middle segment has no duration
SparseDraft ==
    [duration |-> 2000000,
     materials |->
        [k \in ContentBuckets |->
            IF k = "videos"
            THEN <<[id |-> 1, local_material_id |-> None, type |-> "photo",
                    path |-> "/w/old.png", duration |-> 1000000],
                   [id |-> 2, local_material_id |-> None, type |-> "photo",
                    path |-> "/w/old2.png", duration |-> 1000000]>>
            ELSE IF k = "speeds" THEN <<SpeedMat(3), SpeedMat(4)>>
            ELSE IF k = "placeholder_infos" THEN <<PlaceholderMat(5)>>
            ELSE IF k = "sound_channel_mappings" THEN <<SoundMappingMat(6)>>
            ELSE <<>>],
     tracks |-> <<[id |-> 7, type |-> "video",
                   segments |->
                    <<[id |-> 8, material_id |-> 1,
                       target_timerange |-> [start |-> 0, duration |-> 1000000],
                       source_timerange |-> [start |-> 0, duration |-> 1000000],
                       extra_material_refs |-> <<3>>],
                      [id |-> 9, material_id |-> 2,
                       target_timerange |-> [start |-> 1000000, duration |-> 0],
                       source_timerange |-> [start |-> 0, duration |-> 0],
                       extra_material_refs |-> <<4, 5, 6>>],
                      [id |-> 10, material_id |-> 1,
                       target_timerange |-> [start |-> 1000000, duration |-> 1000000],
                       source_timerange |-> [start |-> 0, duration |-> 1000000],
                       extra_material_refs |-> <<>>]>>]>>]

\* the content documents the operations start from: two photos assembled
\* by build_timeline at each default duration, and the sparse draft
TransContents ==
    {BuildTimeline(CleanTemplate.dc, <<"/w/p1.png", "/w/p3.png">>, <<>>, ms, NoMaps, 100).dc :
        ms \in DefaultMsChoices} \cup {SparseDraft}

\* allow-lists: one that matches the catalog and one that does not
TransNameLists == {{"Zoom"}, {"Wipe"}}

\* per_cut_probability, in thousandths: below 0.0 and above 1.0
TransProbabilities == {-500, 2000}

\* duration_ms_range, given in either order
TransRanges == {<<800, 600>>, <<600, 800>>}

InitTrans ==
    /\ pc = "transitions"
    /\ dc \in TransContents
    /\ timeline = [NoTimeline EXCEPT !.catalog = TransCatalog]
    /\ images = <<>>
    /\ sounds = <<>>
    /\ config = [default_ms |-> 5000]
    /\ dmi = CleanTemplate.dmi
    /\ dvs = CleanTemplate.dvs
    /\ idmaps = NoMaps
    /\ ops = None
    /\ diagnostics = NoReport
    /\ written = None
    /\ nextId = 200
    /\ log = <<>>

\* dc, timeline = apply_transitions(dc, timeline, names, p, rng)
TrApplyTransitions ==
    /\ pc = "transitions"
    /\ Len(log) < MaxRuns
    /\ \E names \in TransNameLists, p \in TransProbabilities, rng \in TransRanges :
        \E ch \in CutChoices(dc, timeline, names, rng) :
            LET r == ApplyTransitions(dc, timeline, names, p, rng, ch, nextId)
            IN /\ dc' = r.dc
               /\ timeline' = r.timeline
               /\ nextId' = r.next
    /\ log' = Append(log, "apply_transitions")
    /\ UNCHANGED <<pc, images, sounds, config, dmi, dvs, idmaps, ops, diagnostics, written>>

\* add_transitions_to_content(path, transition_type, duration_us, is_overlap, skip_first)
TrAddTransitionsToContent ==
    /\ pc = "transitions"
    /\ Len(log) < MaxRuns
    /\ \E transition_type \in {"Fade", "Wobble"}, skip_first \in BOOLEAN :
        LET r == AddTransitionsToContent(dc, transition_type, 466666, skip_first, nextId)
        IN /\ dc' = r.content
           /\ nextId' = r.next
    /\ log' = Append(log, "add_transitions_to_content")
    /\ UNCHANGED <<pc, images, sounds, config, dmi, dvs, idmaps, timeline, ops,
                   diagnostics, written>>

\* remove_all_transitions(path)
TrRemoveAllTransitions ==
    /\ pc = "transitions"
    /\ Len(log) < MaxRuns
    /\ dc' = RemoveAllTransitions(dc)
    /\ log' = Append(log, "remove_all_transitions")
    /\ UNCHANGED <<pc, images, sounds, config, dmi, dvs, idmaps, timeline, ops,
                   diagnostics, written, nextId>>

NextTrans ==
    \/ TrApplyTransitions
    \/ TrAddTransitionsToContent
    \/ TrRemoveAllTransitions

SpecTransitions == InitTrans /\ [][NextTrans]_vars

----------------------------------------------------------------------------
(* reserve/capcut_virtual_store_utils.py: the Virtual Store Builder        *)

\* the one record of the type-0 bucket (its id is the empty string)
StoreSentinel == [id |-> None, display_name |-> ""]

\* build_virtual_store: a new link graph for the identifiers given
BuildVirtualStore(material_ids) ==
    [draft_materials |-> <<>>,
     draft_virtual_store |->
        <<[type |-> 0, value |-> <<StoreSentinel>>],
          [type |-> 1,
           value |-> [i \in 1..Len(material_ids) |->
                        [child_id |-> material_ids[i], parent_id |-> ""]]],
          [type |-> 2, value |-> <<>>]>>]

\* extract_image_material_ids_from_meta: the non-empty ids of the records
\* of every type-0 bucket of the catalog, in order
ExtractImageMaterialIdsFromMeta(draft_meta) ==
    Flatten([b \in 1..Len(draft_meta.draft_materials) |->
                IF draft_meta.draft_materials[b].type = 0
                THEN LET items == SelectSeq(draft_meta.draft_materials[b].value,
                                            LAMBDA item : item.id # None)
                     IN [i \in 1..Len(items) |-> items[i].id]
                ELSE <<>>])

----------------------------------------------------------------------------
(* SpecStore: the two writers of the link graph, add_imports and the       *)
(* Virtual Store Builder run from the catalog, called in any order         *)

InitStore ==
    /\ InitApi
    /\ config.default_ms = 5000

\* main() with --from-draft-meta: the link graph is rebuilt from the catalog
ApiBuildVirtualStore ==
    /\ pc = "api"
    /\ Len(log) < MaxCalls
    /\ dvs' = BuildVirtualStore(ExtractImageMaterialIdsFromMeta(dmi))
    /\ log' = Append(log, "build_virtual_store")
    /\ UNCHANGED <<pc, images, sounds, config, dmi, dc, idmaps, timeline, ops,
                   diagnostics, written, nextId>>

NextStore ==
    \/ ApiAddImports
    \/ ApiBuildVirtualStore

SpecStore == InitStore /\ [][NextStore]_vars

----------------------------------------------------------------------------
(* SpecPolicy: apply_transitions run under a transition policy (allow-list, *)
(* per-cut probability, duration range) that stays the same from run to run *)

PolicyConfigs ==
    [default_ms : {5000}, names : TransNameLists, prob : TransProbabilities,
     dur_rng : TransRanges]

InitPolicy ==
    /\ pc = "policy"
    /\ dc \in TransContents
    /\ timeline = [NoTimeline EXCEPT !.catalog = TransCatalog]
    /\ images = <<>>
    /\ sounds = <<>>
    /\ config \in PolicyConfigs
    /\ dmi = CleanTemplate.dmi
    /\ dvs = CleanTemplate.dvs
    /\ idmaps = NoMaps
    /\ ops = None
    /\ diagnostics = NoReport
    /\ written = None
    /\ nextId = 200
    /\ log = <<>>

\* dc, timeline = apply_transitions(dc, timeline, names, prob, dur_rng)
PolicyApplyTransitions ==
    /\ pc = "policy"
    /\ Len(log) < MaxRuns
    /\ \E ch \in CutChoices(dc, timeline, config.names, config.dur_rng) :
        LET r == ApplyTransitions(dc, timeline, config.names, config.prob,
                                  config.dur_rng, ch, nextId)
        IN /\ dc' = r.dc
           /\ timeline' = r.timeline
           /\ nextId' = r.next
    /\ log' = Append(log, "apply_transitions")
    /\ UNCHANGED <<pc, images, sounds, config, dmi, dvs, idmaps, ops, diagnostics, written>>

NextPolicy == PolicyApplyTransitions

SpecPolicy == InitPolicy /\ [][NextPolicy]_vars

----------------------------------------------------------------------------
(* SpecSync: sync_all applied to catalogs whose draft_fold_path ranges over *)
(* the short paths written with both separators                            *)

\* longest draft_fold_path tried, in characters
MaxPathLen == 4

\* the characters of a path: the two separators and a letter
PathChars == {"/", "\\", "a"}

InitSync ==
    /\ pc = "sync"
    /\ \E path \in SeqsUpTo(PathChars, MaxPathLen), name \in {<<>>, <<"o">>} :
            dmi = [CleanTemplate.dmi EXCEPT !.draft_fold_path = path,
                                            !.draft_name = name]
    /\ dvs = CleanTemplate.dvs
    /\ dc = CleanTemplate.dc
    /\ images = <<>>
    /\ sounds = <<>>
    /\ config = [default_ms |-> 5000]
    /\ idmaps = NoMaps
    /\ timeline = NoTimeline
    /\ ops = None
    /\ diagnostics = NoReport
    /\ written = None
    /\ nextId = 100
    /\ log = <<>>

\* dc, dmi, dvs = sync_all(dc, dmi, dvs, ops, project_name, project_dir, force)
SyncCall ==
    /\ pc = "sync"
    /\ Len(log) < MaxRuns
    /\ \E force_meta_name \in BOOLEAN, project_dir \in {<<>>, ProjectDir} :
            dmi' = SyncAll(dmi, ProjectName, project_dir, force_meta_name)
    /\ log' = Append(log, "sync_all")
    /\ UNCHANGED <<pc, images, sounds, config, dvs, dc, idmaps, timeline, ops,
                   diagnostics, written, nextId>>

NextSync == SyncCall

SpecSync == InitSync /\ [][NextSync]_vars

----------------------------------------------------------------------------
(* SpecResync: sync_all called again on its own result with the same       *)
(* project_name, project_dir and force_meta_name, which config holds       *)

\* an output directory whose last folder is not the project name
OtherDir == <<"/", "o", "/", "r">>

ResyncConfigs ==
    [default_ms : {5000},
     project_dir : {<<>>, ProjectDir, OtherDir},
     force_meta_name : BOOLEAN]

InitResync ==
    /\ pc = "resync"
    /\ \E path \in SeqsUpTo(PathChars, MaxPathLen), name \in {<<>>, <<"o">>} :
            dmi = [CleanTemplate.dmi EXCEPT !.draft_fold_path = path,
                                            !.draft_name = name]
    /\ dvs = CleanTemplate.dvs
    /\ dc = CleanTemplate.dc
    /\ images = <<>>
    /\ sounds = <<>>
    /\ config \in ResyncConfigs
    /\ idmaps = NoMaps
    /\ timeline = NoTimeline
    /\ ops = None
    /\ diagnostics = NoReport
    /\ written = None
    /\ nextId = 100
    /\ log = <<>>

\* dc, dmi, dvs = sync_all(dc, dmi, dvs, ops, project_name, project_dir, force)
ResyncCall ==
    /\ pc = "resync"
    /\ Len(log) < MaxRuns
    /\ dmi' = SyncAll(dmi, ProjectName, config.project_dir, config.force_meta_name)
    /\ log' = Append(log, "sync_all")
    /\ UNCHANGED <<pc, images, sounds, config, dvs, dc, idmaps, timeline, ops,
                   diagnostics, written, nextId>>

NextResync == ResyncCall

SpecResync == InitResync /\ [][NextResync]_vars

----------------------------------------------------------------------------
(* The argument objects after a call. Every stage function starts from     *)
(* dict(argument), a shallow copy: a key set on the copy stays on the copy, *)
(* while a list or dict the argument already holds is the same object in   *)
(* both and is appended to in place. A document loaded as {} shares nothing *)

\* the draft_meta_info object passed to add_imports, after the call
MetaArgAfterAddImports(meta, vstore, imgs, snds, id0) ==
    IF meta.draft_materials = <<>> THEN meta
    ELSE [meta EXCEPT !.draft_materials =
            AddImports(meta, vstore, imgs, snds, id0).dmi.draft_materials]

\* the draft_virtual_store object passed to add_imports, after the call
StoreArgAfterAddImports(meta, vstore, imgs, snds, id0) ==
    IF vstore.draft_virtual_store = <<>> THEN vstore
    ELSE [vstore EXCEPT !.draft_virtual_store =
            AddImports(meta, vstore, imgs, snds, id0).dvs.draft_virtual_store]

\* the draft_content object passed to build_timeline, after the call:
\* materials and tracks are shared, "duration" is set on the copy only
ContentArgAfterBuildTimeline(content, imgs, snds, default_ms, maps, id0) ==
    IF DOMAIN content.materials = {} THEN content
    ELSE [BuildTimeline(content, imgs, snds, default_ms, maps, id0).dc
            EXCEPT !.duration = content.duration]

----------------------------------------------------------------------------
(* capcut_draft_utils.py: add_image_to_draft on a draft_meta_info dict      *)

\* _ensure_materials_slot: draft_materials with an entry of the type
\* present (appended with an empty value when missing)
EnsureMaterialsSlot(mats, mat_type) ==
    IF HasBucket(mats, mat_type) THEN mats
    ELSE Append(mats, [type |-> mat_type, value |-> <<>>])

\* _create_placeholder_item
CreatePlaceholderItem(id, now) ==
    [id |-> id, metetype |-> "none", file_Path |-> "", duration |-> 33333,
     import_time_ms |-> now]

\* _create_photo_item
CreatePhotoItem(img_path, duration_us, id, now) ==
    [id |-> id, metetype |-> "photo", file_Path |-> img_path,
     duration |-> duration_us, import_time_ms |-> now]

\* add_image_to_draft with a placeholder before every photo it is asked
\* to mark as first, whatever the bucket holds
AddImageToDraftAlwaysPlaceholder(draft, image_path, include_placeholder_if_first, id0, now) ==
    LET mats == EnsureMaterialsSlot(draft.draft_materials, 0)
        k == BucketIndex(mats, 0)
        items == IF include_placeholder_if_first
                 THEN <<CreatePlaceholderItem(id0, now),
                        CreatePhotoItem(Abs(image_path), 5000000, id0 + 1, now)>>
                 ELSE <<CreatePhotoItem(Abs(image_path), 5000000, id0, now)>>
    IN [draft |-> [draft EXCEPT !.draft_materials = [mats EXCEPT ![k].value = @ \o items],
                                !.tm_draft_modified = now],
        next |-> id0 + Len(items)]

\* add_image_to_draft(draft, image_path, include_placeholder_if_first=...):
\* the draft after the call and the next unused identifier
AddImageToDraft(draft, image_path, include_placeholder_if_first, id0, now) ==
    LET mats == EnsureMaterialsSlot(draft.draft_materials, 0)
        k == BucketIndex(mats, 0)
        first == include_placeholder_if_first /\ Len(mats[k].value) = 0
        items == IF first
                 THEN <<CreatePlaceholderItem(id0, now),
                        CreatePhotoItem(Abs(image_path), 5000000, id0 + 1, now)>>
                 ELSE <<CreatePhotoItem(Abs(image_path), 5000000, id0, now)>>
    IN [draft |-> [draft EXCEPT !.draft_materials = [mats EXCEPT ![k].value = @ \o items],
                                !.tm_draft_modified = now],
        next |-> id0 + Len(items)]

\* catalogs without import records: {} , the cleaned template's bucket
\* list, and a list that has other buckets but no type-0 one
DraftCatalogs ==
    {<<>>, CleanTemplate.dmi.draft_materials,
     <<[type |-> 1, value |-> <<>>], [type |-> 0, value |-> <<>>],
       [type |-> 0, value |-> <<>>]>>,
     <<[type |-> 2, value |-> <<>>]>>}

InitDraft ==
    /\ pc = "draft"
    /\ \E mats \in DraftCatalogs :
            dmi = [draft_materials |-> mats, tm_draft_modified |-> 0]
    /\ dvs = CleanTemplate.dvs
    /\ dc = CleanTemplate.dc
    /\ images = <<>>
    /\ sounds = <<>>
    /\ config = [default_ms |-> 5000]
    /\ idmaps = NoMaps
    /\ timeline = NoTimeline
    /\ ops = None
    /\ diagnostics = NoReport
    /\ written = None
    /\ nextId = 100
    /\ log = <<>>

\* add_image_to_draft(draft, image_path, include_placeholder_if_first=...)
\* at the time Len(log) + 1
DraftAddImage ==
    /\ pc = "draft"
    /\ Len(log) < MaxCalls
    /\ \E image_path \in ApiImagePaths, include_placeholder_if_first \in BOOLEAN :
        LET r == AddImageToDraft(dmi, image_path, include_placeholder_if_first,
                                 nextId, Len(log) + 1)
        IN /\ dmi' = r.draft
           /\ nextId' = r.next
    /\ log' = Append(log, "add_image_to_draft")
    /\ UNCHANGED <<pc, images, sounds, config, dvs, dc, idmaps, timeline, ops,
                   diagnostics, written>>

NextDraft == DraftAddImage

SpecDraft == InitDraft /\ [][NextDraft]_vars

----------------------------------------------------------------------------
(* reserve/comprehensive_id_sync_fixer.py: CapCutIDSynchronizer on the     *)
(* three files of a project folder                                         *)

\* _extract_meta_materials: the records of every type-0 bucket, in order
ExtractMetaMaterials(meta_data) ==
    Flatten([b \in 1..Len(meta_data.draft_materials) |->
                IF meta_data.draft_materials[b].type = 0
                THEN meta_data.draft_materials[b].value ELSE <<>>])

\* [m[0] for m in meta_materials if m[4] == "photo"]
PhotoMaterials(meta_materials) ==
    SelectSeq(meta_materials, LAMBDA m : m.metetype = "photo")

\* [m[0] for m in materials]
IdsOf(materials) == [i \in 1..Len(materials) |-> materials[i].id]

\* _extract_content_materials: the videos of type "photo"
ExtractContentMaterials(content_data) ==
    IF "videos" \in DOMAIN content_data.materials
    THEN SelectSeq(content_data.materials["videos"], LAMBDA v : v.type = "photo")
    ELSE <<>>

\* _extract_store_materials: the child ids of the first type-1 bucket
ExtractStoreMaterials(store_data) ==
    LET links == BucketValue(store_data.draft_virtual_store, 1)
    IN [i \in 1..Len(links) |-> links[i].child_id]

\* _extract_segment_material_refs: the material ids of the first track
ExtractSegmentMaterialRefs(content_data) ==
    IF content_data.tracks = <<>> THEN <<>>
    ELSE [i \in 1..Len(content_data.tracks[1].segments) |->
            content_data.tracks[1].segments[i].material_id]

\* _build_video_material (its fixed duration of 10800 s is left out: no
\* check of the fixer reads it)
BuildVideoMaterial(material_id, file_path) ==
    [id |-> material_id, local_material_id |-> "", type |-> "photo", path |-> file_path]

\* _fix_content_materials: videos cleared and rebuilt from the photo records
FixContentMaterials(content_data, photo_materials) ==
    [content_data EXCEPT !.materials =
        [k \in (DOMAIN @) \cup {"videos"} |->
            IF k = "videos"
            THEN [i \in 1..Len(photo_materials) |->
                    BuildVideoMaterial(photo_materials[i].id, photo_materials[i].file_Path)]
            ELSE @[k]]]

\* _fix_timeline_segments: segment i of the first track gets photo id i,
\* for as many segments as there are photo ids
FixTimelineSegments(content_data, photo_materials) ==
    IF content_data.tracks = <<>> \/ content_data.tracks[1].segments = <<>>
    THEN content_data
    ELSE [content_data EXCEPT !.tracks[1].segments =
            [i \in 1..Len(@) |->
                IF i <= Len(photo_materials)
                THEN [@[i] EXCEPT !.material_id = photo_materials[i].id]
                ELSE @[i]]]

\* CapCutIDSynchronizer._build_virtual_store
FixerBuildVirtualStore(material_ids) ==
    [draft_materials |-> <<>>,
     draft_virtual_store |->
        <<[type |-> 0, value |-> <<StoreSentinel>>],
          [type |-> 1, value |-> [i \in 1..Len(material_ids) |->
                                    [child_id |-> material_ids[i], parent_id |-> ""]]],
          [type |-> 2, value |-> <<>>]>>]

\* CapCutIDSynchronizer.fix: its return value and the content and store
\* files after it
Fix(meta_data, content_data, store_data) ==
    LET meta_materials == ExtractMetaMaterials(meta_data)
        photo_materials == PhotoMaterials(meta_materials)
    IN IF photo_materials = <<>>
       THEN [ok |-> FALSE, content |-> content_data, store |-> store_data]
       ELSE [ok |-> TRUE,
             content |-> FixTimelineSegments(
                            FixContentMaterials(content_data, photo_materials),
                            photo_materials),
             store |-> FixerBuildVirtualStore(IdsOf(meta_materials))]

\* CapCutIDSynchronizer.diagnose: report["id_synchronization"]
Diagnose(meta_data, content_data, store_data) ==
    LET meta_materials == ExtractMetaMaterials(meta_data)
        meta_photo_ids == IdsOf(PhotoMaterials(meta_materials))
        content_video_ids == IdsOf(ExtractContentMaterials(content_data))
        all_meta_ids == IdsOf(meta_materials)
        store_ids == ExtractStoreMaterials(store_data)
        segment_ids == ExtractSegmentMaterialRefs(content_data)
    IN [meta_content_match |-> meta_photo_ids = content_video_ids,
        meta_store_match |-> all_meta_ids = store_ids,
        content_segments_match |-> content_video_ids = segment_ids]

\* the catalog of a project: an optional placeholder and n photo records
FixerMeta(placeholder, n) ==
    [draft_materials |->
        <<[type |-> 0,
           value |-> (IF placeholder THEN <<CreatePlaceholderItem(10, 0)>> ELSE <<>>)
                     \o [i \in 1..n |-> CreatePhotoItem("/w/p1.png", 5000000, 10 + i, 0)]]>>,
     tm_draft_modified |-> 0]

\* the content of a project: n photo materials under identifiers of their
\* own, each on a segment of the first track
FixerContent(n) ==
    [duration |-> n * 5000000,
     materials |-> [k \in ContentBuckets |->
                        IF k = "videos"
                        THEN [i \in 1..n |-> [id |-> 50 + i, local_material_id |-> "",
                                              type |-> "photo", path |-> "/w/p1.png"]]
                        ELSE <<>>],
     tracks |-> <<[id |-> 60, type |-> "video",
                   segments |-> [i \in 1..n |->
                        [id |-> 60 + i, material_id |-> 50 + i,
                         target_timerange |-> [start |-> (i - 1) * 5000000,
                                               duration |-> 5000000],
                         source_timerange |-> [start |-> 0, duration |-> 5000000],
                         extra_material_refs |-> <<>>]]]>>]

InitFixer ==
    /\ pc = "fixer"
    /\ \E placeholder \in BOOLEAN, photos \in 0..(MaxAssets + 1) :
            dmi = FixerMeta(placeholder, photos)
    /\ \E segs \in 0..(MaxAssets + 1) : dc = FixerContent(segs)
    /\ dvs = CleanTemplate.dvs
    /\ images = <<>>
    /\ sounds = <<>>
    /\ config = [default_ms |-> 5000]
    /\ idmaps = NoMaps
    /\ timeline = NoTimeline
    /\ ops = None
    /\ diagnostics = NoReport
    /\ written = None
    /\ nextId = 100
    /\ log = <<>>

\* synchronizer.fix()
FixerFix ==
    /\ pc = "fixer"
    /\ Len(log) < MaxRuns
    /\ LET r == Fix(dmi, dc, dvs)
       IN /\ dc' = r.content
          /\ dvs' = r.store
          /\ log' = Append(log, IF r.ok THEN "fix" ELSE "fix_failed")
    /\ UNCHANGED <<pc, images, sounds, config, dmi, idmaps, timeline, ops,
                   diagnostics, written, nextId>>

\* report = synchronizer.diagnose()
FixerDiagnose ==
    /\ pc = "fixer"
    /\ Len(log) < MaxRuns
    /\ diagnostics' = Diagnose(dmi, dc, dvs)
    /\ log' = Append(log, "diagnose")
    /\ UNCHANGED <<pc, images, sounds, config, dmi, dvs, dc, idmaps, timeline, ops,
                   written, nextId>>

NextFixer ==
    \/ FixerFix
    \/ FixerDiagnose

SpecFixer == InitFixer /\ [][NextFixer]_vars

----------------------------------------------------------------------------
(* SpecDoctor: inspect_and_fix run on contents that carry transitions,     *)
(* inserted by apply_transitions or by add_transitions_to_content          *)

\* report = inspect_and_fix(dc, dmi, dvs, autofix=...); the caller goes on
\* with the documents of the report
TrInspectAndFix ==
    /\ pc = "transitions"
    /\ Len(log) < MaxRuns
    /\ \E autofix \in BOOLEAN :
        LET r == InspectAndFix(dc, dmi, dvs, autofix)
        IN /\ diagnostics' = r
           /\ dc' = r.draft_content
           /\ dmi' = r.draft_meta_info
           /\ dvs' = r.draft_virtual_store
           /\ log' = Append(log, IF autofix THEN "inspect_and_fix_autofix"
                                 ELSE "inspect_and_fix")
    /\ UNCHANGED <<pc, images, sounds, config, idmaps, timeline, ops, written, nextId>>

NextDoctor ==
    \/ TrApplyTransitions
    \/ TrAddTransitionsToContent
    \/ TrInspectAndFix

SpecDoctor == InitTrans /\ [][NextDoctor]_vars

----------------------------------------------------------------------------
(* Properties                                                              *)

\* C2: at the end of the stage pipeline, with the doctor's autofix enabled,
\* the draft_meta_info that write_json wrote has tm_duration equal to the
\* duration of the draft_content that write_json wrote.
C2_WrittenTmDurationMirrorsContent ==
    (pc = "done" /\ config.autofix) =>
        IntOr0(written.draft_meta_info.tm_duration)
            = IntOr0(written.draft_content.duration)

\* the three identifier sets of the cross-document agreement
ImportRecordIds(meta) ==
    {r.id : r \in Range(BucketValue(meta.draft_materials, 0))}

LinkChildIds(vstore) ==
    {e.child_id : e \in Range(BucketValue(vstore.draft_virtual_store, 1))}

LocalMaterialIds(c) ==
    {m.local_material_id : m \in Range(c.materials["videos"]) \cup Range(c.materials["audios"])}

\* C1: after add_imports followed by build_timeline (with the idmaps
\* add_imports returned, on the same asset lists) the ids of the catalog's
\* type-0 records, the child_ids of the link graph's type-1 bucket and the
\* local_material_ids of the video and audio materials are the same set.
C1_CrossDocumentAgreement ==
    (LastCall = "build_timeline" /\ PrevCall = "add_imports") =>
        /\ ImportRecordIds(dmi) = LinkChildIds(dvs)
        /\ LinkChildIds(dvs) = LocalMaterialIds(dc)

\* C7: in the video track build_timeline returns, the first segment starts
\* at 0, every later segment starts where its predecessor ends, and every
\* source_timerange starts at 0.
C7_VideoTrackContiguous ==
    LastCall = "build_timeline" =>
        LET segs == FirstTrackSegments(dc, "video")
        IN /\ segs # <<>> => segs[1].target_timerange.start = 0
           /\ \A i \in 2..Len(segs) :
                segs[i].target_timerange.start = SegEnd(segs[i - 1])
           /\ \A i \in 1..Len(segs) : segs[i].source_timerange.start = 0

\* the end of the last segment of every track that has segments
LastSegmentEnds(c) ==
    {SegEnd(c.tracks[t].segments[Len(c.tracks[t].segments)]) :
        t \in {u \in 1..Len(c.tracks) : c.tracks[u].segments # <<>>}}

\* C8: after build_timeline, content.duration is the maximum over all
\* tracks of the end of the track's last segment, and 0 without segments.
C8_DurationIsMaxTrackEnd ==
    LastCall = "build_timeline" =>
        /\ \A e \in LastSegmentEnds(dc) : e <= dc.duration
        /\ dc.duration \in LastSegmentEnds(dc) \cup {0}
        /\ LastSegmentEnds(dc) = {} => dc.duration = 0

\* a step that is one inspect_and_fix call
DoctorCall(autofix) ==
    log' = Append(log, IF autofix THEN "inspect_and_fix_autofix" ELSE "inspect_and_fix")

\* C9: inspect_and_fix(autofix=true) run on the documents a previous
\* inspect_and_fix(autofix=true) returned reports patched = false and no
\* fixes, and returns the documents it was given.
C9_AutofixTwiceIsFixedPoint ==
    [][(LastCall = "inspect_and_fix_autofix" /\ DoctorCall(TRUE)) =>
        /\ diagnostics'.patched = FALSE
        /\ diagnostics'.fixes = <<>>
        /\ diagnostics'.draft_content = dc
        /\ diagnostics'.draft_meta_info = dmi
        /\ diagnostics'.draft_virtual_store = dvs]_vars

\* a second autofix run has returned, after a first one that inserted the
\* video track, set the content duration and mirrored it
C9_Witness ==
    /\ LastCall = "inspect_and_fix_autofix"
    /\ PrevCall = "inspect_and_fix_autofix"
    /\ \E t \in 1..Len(dc.tracks) : dc.tracks[t].id = VIDEO_TRACK
    /\ dc.duration = 4000000
    /\ dmi.tm_duration = 4000000
    /\ diagnostics.issues # <<>>

\* what inspect_and_fix leaves alone in every case: the link graph, the
\* catalog apart from tm_duration, the records of every material bucket the
\* content had, and the tracks apart from one appended empty video track
DoctorKeepsRecords(autofix) ==
    LET r == diagnostics'
    IN /\ r.draft_virtual_store = dvs
       /\ [r.draft_meta_info EXCEPT !.tm_duration = dmi.tm_duration] = dmi
       /\ \A k \in DOMAIN dc.materials : r.draft_content.materials[k] = dc.materials[k]
       /\ \/ r.draft_content.tracks = dc.tracks
          \/ /\ autofix
             /\ TrackIndex(dc.tracks, "video") = 0
             /\ r.draft_content.tracks =
                    Append(dc.tracks, [id |-> VIDEO_TRACK, type |-> "video", segments |-> <<>>])
       /\ ~autofix => (r.patched = FALSE /\ r.fixes = <<>>)

\* C10 (as stated): inspect_and_fix changes nothing except the inserted
\* empty video track, content.duration and catalog.tm_duration; without
\* autofix it reports patched = false and no fixes.
C10_DoctorChangesOnlyTrackAndDurations ==
    [][\A autofix \in BOOLEAN : DoctorCall(autofix) =>
        /\ DoctorKeepsRecords(autofix)
        /\ DOMAIN diagnostics'.draft_content.materials = DOMAIN dc.materials]_vars

\* C10 (amended): besides the inserted empty video track, content.duration
\* and catalog.tm_duration, inspect_and_fix (with or without autofix) adds
\* the material buckets the content lacks, each empty; it never adds,
\* removes or alters a segment, a material record, an import record or a
\* link-graph entry, and without autofix reports patched = false, no fixes.
C10_DoctorFrame ==
    [][\A autofix \in BOOLEAN : DoctorCall(autofix) =>
        /\ DoctorKeepsRecords(autofix)
        /\ DOMAIN diagnostics'.draft_content.materials = DOMAIN dc.materials \cup DoctorBuckets
        /\ \A k \in DoctorBuckets \ DOMAIN dc.materials :
                diagnostics'.draft_content.materials[k] = <<>>]_vars

\* an autofix run has reported a segment whose material does not resolve
\* and a material whose import reference is missing, and returned them
C10_Witness ==
    /\ LastCall = "inspect_and_fix_autofix"
    /\ diagnostics.patched
    /\ \E i \in 1..Len(diagnostics.issues) :
            diagnostics.issues[i].kind = "audio_segment_missing_material"
    /\ \E i \in 1..Len(diagnostics.issues) :
            diagnostics.issues[i].kind = "video_material_missing_local_material_id"
    /\ dc.materials["videos"] # <<>>

\* the video segments, and the transition materials, of the content
VideoSegments == FirstTrackSegments(dc, "video")

\* number of entries of refs that name a transition material of c
TransitionRefCount(refs, c) ==
    Cardinality({j \in 1..Len(refs) : refs[j] \in TransitionIds(c.materials)})

\* every call so far was one of ops
OnlyCalls(names) == \A i \in 1..Len(log) : log[i] \in names

\* C3: every transition apply_transitions inserted at the cut between
\* adjacent video segments of target durations d1 and d2 has
\* 200000 <= duration <= min(d1, d2).
C3_TransitionDurationBound ==
    (pc = "transitions" /\ OnlyCalls({"apply_transitions"})) =>
        \A i \in 1..(Len(VideoSegments) - 1) :
            \A j \in 1..Len(VideoSegments[i].extra_material_refs) :
                LET ref == VideoSegments[i].extra_material_refs[j]
                IN ref \in TransitionIds(dc.materials) =>
                    /\ 200000 <= MaterialById(dc, ref).duration
                    /\ MaterialById(dc, ref).duration <=
                            Min2(VideoSegments[i].target_timerange.duration,
                                 VideoSegments[i + 1].target_timerange.duration)

\* C4: after any number of apply_transitions runs on the same content, every
\* segment's extra_material_refs holds at most one transition identifier.
C4_AtMostOneTransitionPerSegment ==
    (pc = "transitions" /\ OnlyCalls({"apply_transitions"})) =>
        \A i \in 1..Len(VideoSegments) :
            TransitionRefCount(VideoSegments[i].extra_material_refs, dc) <= 1

\* C5: after any sequence of add_transitions_to_content and
\* remove_all_transitions calls, every identifier in every first-track
\* segment's extra_material_refs resolves to a material of the content.
C5_RefsResolveAfterUtils ==
    (pc = "transitions"
        /\ OnlyCalls({"add_transitions_to_content", "remove_all_transitions"})) =>
        \A i \in 1..Len(dc.tracks[1].segments) :
            Range(dc.tracks[1].segments[i].extra_material_refs) \subseteq MaterialIds(dc)

\* t sits in new at index 2 when the list it was inserted into had at
\* least 2 entries and at its end otherwise, once, and the entries of old
\* are in new in the order they had
PlacedIn(old, new, t) ==
    /\ t \notin Range(old)
    /\ Cardinality({j \in 1..Len(new) : new[j] = t}) = 1
    /\ new[IF Len(new) - 1 >= 2 THEN 3 ELSE Len(new)] = t
    /\ FilterSeq(new, Range(old)) = FilterSeq(old, Range(new))

\* the transition created for cut i (segments i, i+1) by the step, if any,
\* is placed in segment i and in no other segment
CutPlacement(segs, segs2, i, t) ==
    t \in TransitionIds(dc'.materials) =>
        /\ PlacedIn(segs[i].extra_material_refs, segs2[i].extra_material_refs, t)
        /\ \A k \in 1..Len(segs2) : k # i => t \notin Range(segs2[k].extra_material_refs)

\* C6: for every cut (segment[i], segment[i+1]) at which a transition is
\* inserted, by apply_transitions or by add_transitions_to_content, its
\* identifier is placed in segment[i]'s extra_material_refs and not in
\* segment[i+1]'s: at index 2 when the list had at least 2 entries before
\* the insertion, otherwise at the end; the identifiers already in the
\* list keep their relative order.
C6_TransitionRefPlacement ==
    [][/\ log' = Append(log, "apply_transitions") =>
            LET segs == VideoSegments
                segs2 == FirstTrackSegments(dc', "video")
            IN /\ Len(segs2) = Len(segs)
               /\ \A i \in 1..(Len(segs) - 1) :
                    /\ CutPlacement(segs, segs2, i, nextId + i - 1)
                    /\ Len(segs2[i].extra_material_refs) <=
                            Len(segs[i].extra_material_refs) + 1
               /\ segs2[Len(segs)] = segs[Len(segs)]
       /\ log' = Append(log, "add_transitions_to_content") =>
            LET segs == dc.tracks[1].segments
                segs2 == dc'.tracks[1].segments
                \* 1 when the call skipped the first segment, else 0
                start_index == Len(segs) - (nextId' - nextId)
            IN /\ Len(segs2) = Len(segs)
               /\ \A i \in 1..(Len(segs) - 1) :
                    /\ nextId + (i - start_index) \in TransitionIds(dc'.materials)
                    /\ CutPlacement(segs, segs2, i, nextId + (i - start_index))
               /\ segs2[Len(segs)] = segs[Len(segs)]]_vars

\* apply_transitions has put a transition at the end of a one-entry list
\* and another at index 2 of a three-entry list
C6_Witness ==
    /\ LastCall = "apply_transitions"
    /\ Len(VideoSegments) = 3
    /\ LET r1 == VideoSegments[1].extra_material_refs
           r2 == VideoSegments[2].extra_material_refs
       IN /\ Len(r1) = 2 /\ r1[1] = 3 /\ r1[2] \in TransitionIds(dc.materials)
          /\ Len(r2) = 4 /\ r2[3] \in TransitionIds(dc.materials) /\ r2[4] = 6
          /\ VideoSegments[3].extra_material_refs = <<>>

\* the latest segment end over every video and audio track of c
AllTracksEnd(c) ==
    MaxEnd(Flatten([t \in 1..Len(c.tracks) |->
                        IF c.tracks[t].type \in {"video", "audio"}
                        THEN c.tracks[t].segments ELSE <<>>]))

\* C11: inspect_and_fix reports a content-duration issue exactly when
\* content.duration differs from the latest segment end over all video and
\* audio tracks, and with autofix the returned content.duration and
\* catalog.tm_duration both equal that latest end.
C11_DoctorDurationIsAllTracksEnd ==
    [][\A autofix \in BOOLEAN : DoctorCall(autofix) =>
        /\ (\E i \in 1..Len(diagnostics'.issues) :
                diagnostics'.issues[i].kind = "content_duration")
            <=> (IntOr0(dc.duration) # AllTracksEnd(dc))
        /\ autofix =>
            /\ IntOr0(diagnostics'.draft_content.duration) = AllTracksEnd(dc)
            /\ IntOr0(diagnostics'.draft_meta_info.tm_duration) = AllTracksEnd(dc)]_vars

\* the identifiers the last add_imports run returned in its path-to-id map
MintedImportIds ==
    {idmaps.images[i].import_id : i \in 1..Len(idmaps.images)}
        \cup {idmaps.audios[i].import_id : i \in 1..Len(idmaps.audios)}

\* the import records of the catalog, in bucket order
CatalogRecords(meta) == BucketValue(meta.draft_materials, 0)

\* C12: a run of add_imports over N assets (visual and audio) produces N
\* pairwise distinct import identifiers, and no identifier of a run is one
\* an earlier run on the same documents produced.
C12_ImportIdsDistinct ==
    LastCall = "add_imports" =>
        /\ Cardinality(MintedImportIds) = Len(images) + Len(sounds)
        /\ \A i, j \in 1..Len(CatalogRecords(dmi)) :
                i # j => CatalogRecords(dmi)[i].id # CatalogRecords(dmi)[j].id

\* the resolved paths of the assets of the call, visual first, in input order
CallAssets == [i \in 1..(Len(images) + Len(sounds)) |->
                IF i <= Len(images) THEN Abs(images[i]) ELSE Abs(sounds[i - Len(images)])]

\* C13: whatever import records the catalog's type-0 bucket held before,
\* after add_imports the bucket holds exactly one record per asset of the
\* call, in input order, and the returned path-to-id map pairs each asset's
\* path with the id of its record.
C13_AddImportsResets ==
    LastCall = "add_imports" =>
        LET recs == CatalogRecords(dmi)
            maps == idmaps.images \o idmaps.audios
        IN /\ Len(recs) = Len(CallAssets)
           /\ Len(maps) = Len(CallAssets)
           /\ \A i \in 1..Len(CallAssets) :
                /\ recs[i].path = CallAssets[i]
                /\ maps[i].path = CallAssets[i]
                /\ maps[i].import_id = recs[i].id

\* the edges of the link graph's type-1 bucket
LinkEdges(vstore) == BucketValue(vstore.draft_virtual_store, 1)

\* e is the edge (child_id = id, parent_id = "")
IsRootEdge(e, id) ==
    /\ DOMAIN e = {"child_id", "parent_id"}
    /\ e.child_id = id
    /\ e.parent_id = ""

\* C14: every link edge add_imports or build_virtual_store writes to the
\* type-1 bucket is (child_id, parent_id = ""), one per catalog identifier
\* supplied, in catalog order.
C14_LinkEdgesHaveEmptyParent ==
    [][/\ log' = Append(log, "add_imports") =>
            LET added == SubSeq(LinkEdges(dvs'), Len(LinkEdges(dvs)) + 1,
                                Len(LinkEdges(dvs')))
                recs == SubSeq(CatalogRecords(dmi'), Len(CatalogRecords(dmi)) + 1,
                               Len(CatalogRecords(dmi')))
            IN /\ Len(added) = Len(recs)
               /\ \A i \in 1..Len(added) : IsRootEdge(added[i], recs[i].id)
       /\ log' = Append(log, "build_virtual_store") =>
            LET ids == ExtractImageMaterialIdsFromMeta(dmi)
            IN /\ Len(LinkEdges(dvs')) = Len(ids)
               /\ \A i \in 1..Len(ids) : IsRootEdge(LinkEdges(dvs')[i], ids[i])]_vars

\* C15: after any sequence of add_imports and build_virtual_store calls the
\* link graph has exactly one type-0 bucket, holding exactly one sentinel
\* record, and no bucket type occurs twice.
C15_OneSentinel ==
    log # <<>> =>
        LET bs == dvs.draft_virtual_store
        IN /\ Cardinality({i \in 1..Len(bs) : bs[i].type = 0}) = 1
           /\ BucketValue(bs, 0) = <<StoreSentinel>>
           /\ \A i, j \in 1..Len(bs) : i # j => bs[i].type # bs[j].type

\* number of calls of the name made so far
CallCount(name) == Cardinality({i \in 1..Len(log) : log[i] = name})

\* C16: re-running build_timeline with the same N visual assets on a content
\* an earlier build_timeline run populated rebuilds the arrays: the video
\* track again has exactly N segments and materials.videos exactly N entries.
C16_RebuildOnRerun ==
    (pc = "api" /\ LastCall = "build_timeline" /\ CallCount("build_timeline") >= 2) =>
        /\ Len(FirstTrackSegments(dc, "video")) = Len(images)
        /\ Len(dc.materials["videos"]) = Len(images)

\* the positions of the audio tracks of c
AudioTracks(c) == {t \in 1..Len(c.tracks) : c.tracks[t].type = "audio"}

\* C17: with k >= 1 audio assets add_imports registers k audio import
\* records and build_timeline, on a content without audio tracks, creates k
\* audio tracks, each holding exactly one segment that references its own
\* audio material; with no audio asset no audio track exists.
C17_OneTrackPerAudioAsset ==
    [][(LastCall = "add_imports" /\ log' = Append(log, "build_timeline")
            /\ AudioTracks(dc) = {}) =>
        /\ Len(idmaps.audios) = Len(sounds)
        /\ Cardinality(AudioTracks(dc')) = Len(sounds)
        /\ \A t \in AudioTracks(dc') :
            /\ Len(dc'.tracks[t].segments) = 1
            /\ \E m \in Range(dc'.materials["audios"]) :
                    m.id = dc'.tracks[t].segments[1].material_id
        /\ \A t, u \in AudioTracks(dc') :
                t # u => dc'.tracks[t].segments[1].material_id
                            # dc'.tracks[u].segments[1].material_id]_vars

\* the transition materials a step appended
InsertedTransitions ==
    SubSeq(dc'.materials["transitions"], Len(dc.materials["transitions"]) + 1,
           Len(dc'.materials["transitions"]))

\* the names the catalog handed to the run defines
CatalogNames == {timeline.catalog[i].name : i \in 1..Len(timeline.catalog)}

\* C18 (as stated): given a non-empty allow-list, every transition
\* apply_transitions inserts has a name of the allow-list, for every catalog.
C18_InsertedNamesInAllowList ==
    [][(pc = "policy" /\ log' = Append(log, "apply_transitions") /\ config.names # {}) =>
        \A i \in 1..Len(InsertedTransitions) :
            InsertedTransitions[i].name \in config.names]_vars

\* C18 (amended): given an allow-list that names at least one definition
\* of the catalog, every inserted transition has a name of the allow-list;
\* given an allow-list that names none, the full catalog is used.
C18_AllowListWithFallback ==
    [][(pc = "policy" /\ log' = Append(log, "apply_transitions") /\ config.names # {}) =>
        \A i \in 1..Len(InsertedTransitions) :
            IF config.names \cap CatalogNames # {}
            THEN InsertedTransitions[i].name \in config.names
            ELSE InsertedTransitions[i].name \in CatalogNames]_vars

\* a run under the allow-list {"Zoom"}, over a catalog that also defines
\* "Fade", has inserted transitions, all of them "Zoom"
C18_Witness ==
    /\ pc = "policy"
    /\ LastCall = "apply_transitions"
    /\ config.names = {"Zoom"}
    /\ "Fade" \in CatalogNames
    /\ dc.materials["transitions"] # <<>>
    /\ \A i \in 1..Len(dc.materials["transitions"]) :
            dc.materials["transitions"][i].name = "Zoom"

\* C19: with a clamped probability of 0 no cut receives a transition,
\* whatever the random draws; with a clamped probability of 1 every one of
\* the N-1 cuts receives exactly one transition.
C19_ProbabilityExtremes ==
    [][(pc = "policy" /\ log' = Append(log, "apply_transitions")) =>
        LET segs == VideoSegments
            segs2 == FirstTrackSegments(dc', "video")
        IN /\ ClampProbability(config.prob) = 0 =>
                /\ InsertedTransitions = <<>>
                /\ segs2 = segs
           /\ ClampProbability(config.prob) = 1000 =>
                /\ Len(InsertedTransitions) = Len(segs) - 1
                /\ \A i \in 1..(Len(segs) - 1) :
                        Len(segs2[i].extra_material_refs) =
                            Len(segs[i].extra_material_refs) + 1]_vars

\* the position of the last separator of path (0 when it has none)
LastSepPos(path) ==
    IF \E i \in 1..Len(path) : IsSep(path[i])
    THEN CHOOSE i \in 1..Len(path) :
            IsSep(path[i]) /\ \A j \in (i + 1)..Len(path) : ~IsSep(path[j])
    ELSE 0

\* C20: when sync_all rewrites a non-empty draft_fold_path the result is
\* the old path with its last component replaced by project_name: every
\* earlier component and every separator character is kept as it was;
\* draft_content and draft_virtual_store are returned unchanged.
C20_OnlyLastComponentRewritten ==
    [][(pc = "sync" /\ log' = Append(log, "sync_all") /\ dmi.draft_fold_path # <<>>) =>
        /\ dmi'.draft_fold_path =
                SubSeq(dmi.draft_fold_path, 1, LastSepPos(dmi.draft_fold_path))
                    \o ProjectName
        /\ dc' = dc
        /\ dvs' = dvs]_vars

\* C21: sync_all is idempotent: a second call with the same project_name
\* and project_dir on the result of the first call leaves draft_name and
\* draft_fold_path exactly as the first call set them.
C21_SyncAllIdempotent ==
    [][(pc = "resync" /\ log = <<"sync_all">> /\ log' = Append(log, "sync_all")) =>
        /\ dmi'.draft_name = dmi.draft_name
        /\ dmi'.draft_fold_path = dmi.draft_fold_path]_vars

\* C22: each stage function is pure with respect to its arguments: the
\* document objects passed to add_imports, build_timeline and
\* inspect_and_fix, nested lists included, are the same after the call as
\* before it.
C22_StagesLeaveArgumentsAlone ==
    [][/\ (pc = "api" /\ log' = Append(log, "add_imports")) =>
            /\ MetaArgAfterAddImports(dmi, dvs, images, sounds, nextId) = dmi
            /\ StoreArgAfterAddImports(dmi, dvs, images, sounds, nextId) = dvs
       /\ (pc = "api" /\ log' = Append(log, "build_timeline")) =>
            ContentArgAfterBuildTimeline(dc, images, sounds, config.default_ms,
                                         idmaps, nextId) = dc
       /\ (pc = "api" /\ log' = Append(log, "inspect_and_fix")) =>
            ContentArgAfterInspect(dc, FALSE) = dc
       /\ (pc = "api" /\ log' = Append(log, "inspect_and_fix_autofix")) =>
            ContentArgAfterInspect(dc, TRUE) = dc]_vars

PlaceholderPositions(meta) ==
    LET recs == BucketValue(meta.draft_materials, 0)
    IN {i \in 1..Len(recs) : recs[i].metetype = "none"}

\* C24: after any sequence of add_image_to_draft calls on a catalog that
\* started without import records, the type-0 bucket holds at most one
\* placeholder record, it is the first record of the bucket, and a
\* placeholder is created only by a call that found the bucket empty.
C24_AtMostOnePlaceholderFirst ==
    /\ [](pc = "draft" =>
            /\ Cardinality(PlaceholderPositions(dmi)) <= 1
            /\ PlaceholderPositions(dmi) \subseteq {1})
    /\ [][(pc = "draft"
           /\ Cardinality(PlaceholderPositions(dmi')) >
                Cardinality(PlaceholderPositions(dmi))) =>
          BucketValue(dmi.draft_materials, 0) = <<>>]_vars

\* three calls, the later ones again asking for a placeholder, left one
\* placeholder followed by the three photos
C24_Witness ==
    /\ pc = "draft"
    /\ Len(BucketValue(dmi.draft_materials, 0)) = 4
    /\ PlaceholderPositions(dmi) = {1}

\* the segments of every track of c, in track order
AllSegments(c) == Flatten([t \in 1..Len(c.tracks) |-> c.tracks[t].segments])

\* the identifiers of the records of one content.materials array
MaterialIdsOf(c, key) == {c.materials[key][i].id : i \in 1..Len(c.materials[key])}

\* the segments build_timeline created in this call
CreatedSegments(before, after) ==
    LET old == {AllSegments(before)[i].id : i \in 1..Len(AllSegments(before))}
    IN SelectSeq(AllSegments(after), LAMBDA seg : seg.id \notin old)

\* C25: after build_timeline, on a first or a repeated run, every segment
\* the call created has extra_material_refs starting with [speed_id,
\* placeholder_id, sound_channel_mapping_id] in that order, each
\* resolving to a record of the matching content.materials array, and no
\* accessory identifier is in the reference list of two segments.
C25_AccessorySetPerSegment ==
    [][(pc = "api" /\ log' = Append(log, "build_timeline")) =>
        LET created == CreatedSegments(dc, dc')
            all == AllSegments(dc')
        IN /\ \A i \in 1..Len(created) :
                LET refs == created[i].extra_material_refs
                IN /\ Len(refs) >= 3
                   /\ refs[1] \in MaterialIdsOf(dc', "speeds")
                   /\ refs[2] \in MaterialIdsOf(dc', "placeholder_infos")
                   /\ refs[3] \in MaterialIdsOf(dc', "sound_channel_mappings")
           /\ \A i, j \in 1..Len(all) :
                i # j =>
                    \A a \in 1..Len(all[i].extra_material_refs),
                       b \in 1..Len(all[j].extra_material_refs) :
                        all[i].extra_material_refs[a] # all[j].extra_material_refs[b]]_vars

\* a second build_timeline run has left four video segments and two audio
\* segments, each with its own accessory set
C25_Witness ==
    /\ pc = "api"
    /\ Len(log) >= 2
    /\ log[1] = "build_timeline"
    /\ log[2] = "build_timeline"
    /\ Len(SelectSeq(AllSegments(dc), LAMBDA seg : Len(seg.extra_material_refs) = 3)) = 6

\* the assets of the call that cannot be read: probing them fails
UnreadableAssets ==
    {Abs(sounds[k]) : k \in {j \in 1..Len(sounds) :
                                GetAudioDurationUs(Abs(sounds[j])) = None}}

\* C26: add_imports skips an asset that is an unreadable file: the run
\* creates no import record and no link edge for it.
C26_UnreadableAssetSkipped ==
    [][(pc = "api" /\ log' = Append(log, "add_imports")) =>
        LET recs == CatalogRecords(dmi')
            edges == BucketValue(dvs'.draft_virtual_store, 1)
            skipped == {recs[i].id : i \in {j \in 1..Len(recs) :
                            recs[j].path \in UnreadableAssets}}
        IN /\ \A i \in 1..Len(recs) :
                recs[i].id >= nextId => recs[i].path \notin UnreadableAssets
           /\ \A e \in 1..Len(edges) :
                edges[e].child_id >= nextId => edges[e].child_id \notin skipped]_vars

\* C27: in the pipeline, when the configuration has a non-empty
\* transitions.catalog with per_cut_probability 1 and the assembled video
\* track has N >= 2 segments, apply_transitionsStage leaves
\* content.materials.transitions with N-1 transition materials.
C27_PipelineInsertsTransitions ==
    [][(/\ pc = "apply_transitions"
        /\ config.catalog # <<>>
        /\ config.prob = 1000
        /\ Len(VideoSegments) >= 2) =>
            Len(dc'.materials["transitions"]) = Len(VideoSegments) - 1]_vars

\* C28: after a successful add_transitions_to_content call on a first track
\* with N >= 2 segments, for either value of skip_first,
\* content.materials.transitions holds exactly N-1 transitions: each of the
\* first N-1 segments references exactly one of them and the last segment
\* references none.
C28_OneTransitionPerCut ==
    [][(/\ pc = "transitions"
        /\ log' = Append(log, "add_transitions_to_content")
        /\ ~NoSegmentsToJoin(dc)) =>
            LET segs2 == dc'.tracks[1].segments
                n == Len(segs2)
            IN /\ Len(dc'.materials["transitions"]) = n - 1
               /\ \A i \in 1..(n - 1) :
                    TransitionRefCount(segs2[i].extra_material_refs, dc') = 1
               /\ TransitionRefCount(segs2[n].extra_material_refs, dc') = 0]_vars

\* C29: after fix() returned true, for any number of photo records and
\* any number of first-track segments, every first-track segment's
\* material_id resolves to a material of content.materials.videos and a
\* following diagnose() reports meta_content_match, meta_store_match and
\* content_segments_match all true.
C29_FixSynchronizesIds ==
    [][(pc = "fixer" /\ LastCall = "fix" /\ log' = Append(log, "diagnose")) =>
        /\ \A i \in 1..Len(ExtractSegmentMaterialRefs(dc)) :
                ExtractSegmentMaterialRefs(dc)[i] \in MaterialIdsOf(dc, "videos")
        /\ diagnostics'.meta_content_match
        /\ diagnostics'.meta_store_match
        /\ diagnostics'.content_segments_match]_vars

\* the doctor ran in this step
InspectStep ==
    \/ log' = Append(log, "inspect_and_fix")
    \/ log' = Append(log, "inspect_and_fix_autofix")

\* the report of this step has an issue about transition ref
ReportedTransition(ref) ==
    \E k \in 1..Len(diagnostics'.issues) :
        /\ diagnostics'.issues[k].kind = "transition_not_safe"
        /\ diagnostics'.issues[k].a = ref

\* C30: for every transition material referenced from a video segment,
\* inspect_and_fix adds an issue whenever the transition's duration is
\* below 200000 us or exceeds the shorter of the durations of that segment
\* and its successor; with or without autofix it modifies neither the
\* transition materials nor the segments' references.
C30_UnsafeTransitionsReportedOnly ==
    [][(pc = "transitions" /\ InspectStep) =>
        LET segs == VideoSegments
            after == FirstTrackSegments(diagnostics'.draft_content, "video")
        IN /\ \A i \in 1..Len(segs) :
                \A r \in 1..Len(segs[i].extra_material_refs) :
                    LET ref == segs[i].extra_material_refs[r]
                    IN ref \in TransitionIds(dc.materials) =>
                        LET tdur == MaterialById(dc, ref).duration
                        IN (\/ tdur < 200000
                            \/ /\ i < Len(segs)
                               /\ tdur > Min2(segs[i].target_timerange.duration,
                                              segs[i + 1].target_timerange.duration))
                           => ReportedTransition(ref)
           /\ diagnostics'.draft_content.materials["transitions"]
                    = dc.materials["transitions"]
           /\ Len(after) = Len(segs)
           /\ \A i \in 1..Len(segs) :
                after[i].extra_material_refs = segs[i].extra_material_refs]_vars

====
